---- MODULE Spec2Model ----
(***************************************************************************)
(* The conversation dashboards of sasha-pilots (sasha/src/app/page.tsx and *)
(* its twin, the matei dashboard) as a state machine: the React state of   *)
(* the Dashboard component, one action per event handler or per response   *)
(* of a request in flight, and the filter as a pure operator.              *)
(*                                                                         *)
(* Conventions.  A JavaScript string that the code inspects (toLowerCase,  *)
(* includes, trim) is a sequence of one-character strings; a string that   *)
(* is only compared is a TLA+ string.  A nullable string is a sequence of  *)
(* length 0 (null) or 1 (the string).  A keyed map {[id]: v} is a function *)
(* over Ids whose default value stands for the absent (undefined) key.     *)
(* The continuation of a fetch commits its state writes in one render; the *)
(* effect that render triggers (useEffect -> applyFilters) runs after the   *)
(* commit, as a step of its own, with the render it closed over on screen  *)
(* in between.  The render of a click or keystroke runs its effect before  *)
(* another event is handled, so a filter setter and its effect are one     *)
(* step.  Any step of the dashboard that writes state while an effect is   *)
(* still due runs that effect first, as part of the step; a step that      *)
(* writes none (a click that only starts a fetch) leaves it due.           *)
(***************************************************************************)
EXTENDS Integers, Sequences, FiniteSets, TLC

\* ------------------------------------------------------------------ bounds
MaxConvs == 3          \* conversations in one response of /api/conversations
MaxTicks == 1          \* clock advances (of TickMs each) during a session
MaxInFlight == 2       \* requests of one kind in flight at once

\* ------------------------------------------------------------- wall clock
\* Date.now() as whole seconds and the milliseconds within the second.
Now0 == 1700000000
TickMs == 500

Clock0 == [secs |-> Now0, ms |-> 0]

AdvanceClock(c) ==
    IF c.ms + TickMs >= 1000
    THEN [secs |-> c.secs + 1, ms |-> c.ms + TickMs - 1000]
    ELSE [secs |-> c.secs, ms |-> c.ms + TickMs]

\* ---------------------------------------------------------------- strings
ToLowerChar(ch) ==
    CASE ch = "A" -> "a"
      [] ch = "B" -> "b"
      [] ch = "L" -> "l"
      [] ch = "O" -> "o"
      [] OTHER -> ch

\* String.prototype.toLowerCase
toLowerCase(s) == [i \in 1..Len(s) |-> ToLowerChar(s[i])]

\* String.prototype.includes
includes(s, t) ==
    \E i \in 0..(Len(s) - Len(t)) : SubSeq(s, i + 1, i + Len(t)) = t

IsSpace(ch) == ch = " "

\* String.prototype.trim
RECURSIVE TrimLeft(_)
TrimLeft(s) ==
    IF s # <<>> /\ IsSpace(Head(s)) THEN TrimLeft(Tail(s)) ELSE s

RECURSIVE TrimRight(_)
TrimRight(s) ==
    IF s # <<>> /\ IsSpace(s[Len(s)])
    THEN TrimRight(SubSeq(s, 1, Len(s) - 1))
    ELSE s

trim(s) == TrimRight(TrimLeft(s))

\* ---------------------------------------------------------- conversations
Ids == {"c1", "c2", "c3"}

ALL == <<"a", "l", "l">>
AgentAl == <<"A", "l">>
AgentBo == <<"B", "o">>

\* interface Conversation: the fields the dashboard reads.
Conv(id, agent, title, status, success, start) ==
    [conversation_id |-> id, agent_name |-> agent, call_summary_title |-> title,
     status |-> status, call_successful |-> success,
     start_time_unix_secs |-> start]

\* The records the transcript provider can return, one per id.
Pool ==
    { Conv("c1", AgentAl, << <<"B", "O", "b">> >>, "done", "success",
           Now0 - 24 * 60 * 60),
      Conv("c2", AgentBo, <<>>, "failed", "failure",
           Now0 - 24 * 60 * 60 - 1),
      Conv("c3", AgentAl, << <<"A", "l", "l">> >>, "done", "unknown",
           Now0 - 7 * 24 * 60 * 60) }

IdsOf(convs) == { convs[i].conversation_id : i \in 1..Len(convs) }

\* The bodies /api/conversations can answer with: any order, distinct ids.
Bodies ==
    { b \in UNION { [1..n -> Pool] : n \in 0..MaxConvs } :
        \A i, j \in 1..Len(b) :
            i # j => b[i].conversation_id # b[j].conversation_id }

\* Array.prototype.sort with (a, b) => b.start - a.start: stable, descending.
RECURSIVE InsertDesc(_, _)
InsertDesc(x, sorted) ==
    IF sorted = <<>> THEN <<x>>
    ELSE IF Head(sorted).start_time_unix_secs >= x.start_time_unix_secs
         THEN <<Head(sorted)>> \o InsertDesc(x, Tail(sorted))
         ELSE <<x>> \o sorted

RECURSIVE SortFrom(_, _)
SortFrom(rest, acc) ==
    IF rest = <<>> THEN acc
    ELSE SortFrom(Tail(rest), InsertDesc(Head(rest), acc))

\* Mutants of sortedConversations: no sort at all, and oldest first.
unsortedConversations(body) == body

RECURSIVE Reversed(_)
Reversed(seq) ==
    IF seq = <<>> THEN <<>> ELSE Reversed(Tail(seq)) \o <<Head(seq)>>

sortedAscending(body) == Reversed(SortFrom(body, <<>>))

sortedConversations(body) == SortFrom(body, <<>>)

\* ----------------------------------------------------------- filter engine
StatusOptions == {"all", "done", "failed"}
SuccessOptions == {"all", "success", "failure", "unknown"}
DateOptions == {"all", "today", "week", "month"}
SearchTerms == {<<>>, <<"b", "O">>}

Criteria(vm, st, sf, af, xf, df) ==
    [viewMode |-> vm, searchTerm |-> st, statusFilter |-> sf,
     agentFilter |-> af, successFilter |-> xf, dateFilter |-> df]

\* The window of `cutoff`, in seconds.
Window(df) ==
    CASE df = "today" -> 24 * 60 * 60
      [] df = "week" -> 7 * 24 * 60 * 60
      [] df = "month" -> 30 * 24 * 60 * 60

\* if (cutoff): the date filter is one of the map's keys and now - window # 0.
CutoffTruthy(df, c) ==
    /\ df \in {"today", "week", "month"}
    /\ ~(c.secs = Window(df) /\ c.ms = 0)

\* Mutant of AtOrAfterCutoff: an exclusive cutoff (> for >=).
AfterCutoff(start, df, c) == start + Window(df) >= c.secs + 1

\* conv.start_time_unix_secs >= Date.now() / 1000 - window, start an integer.
AtOrAfterCutoff(start, df, c) ==
    start + Window(df) >= c.secs + (IF c.ms > 0 THEN 1 ELSE 0)

\* Mutant of MatchesSearch: the search term is not lower-cased.
MatchesSearchCaseSensitive(conv, term) ==
    \/ /\ conv.call_summary_title # <<>>
       /\ includes(toLowerCase(conv.call_summary_title[1]), term)
    \/ includes(toLowerCase(conv.agent_name), term)

MatchesSearch(conv, term) ==
    \/ /\ conv.call_summary_title # <<>>
       /\ includes(toLowerCase(conv.call_summary_title[1]), toLowerCase(term))
    \/ includes(toLowerCase(conv.agent_name), toLowerCase(term))

FilterSearch(convs, term) ==
    LET Keep(conv) == MatchesSearch(conv, term)
    IN  IF term # <<>> THEN SelectSeq(convs, Keep) ELSE convs

FilterStatus(convs, sf) ==
    LET Keep(conv) == conv.status = sf
    IN  IF sf # "all" THEN SelectSeq(convs, Keep) ELSE convs

FilterAgent(convs, af) ==
    LET Keep(conv) == conv.agent_name = af
    IN  IF af # ALL THEN SelectSeq(convs, Keep) ELSE convs

FilterSuccess(convs, xf) ==
    LET Keep(conv) == conv.call_successful = xf
    IN  IF xf # "all" THEN SelectSeq(convs, Keep) ELSE convs

FilterDate(convs, df, c) ==
    LET Keep(conv) == AtOrAfterCutoff(conv.start_time_unix_secs, df, c)
    IN  IF df # "all" /\ CutoffTruthy(df, c) THEN SelectSeq(convs, Keep)
        ELSE convs

\* Mutant of applyFilters: latest mode takes the first element of the
\* filtered list instead of the first element of the list.
applyFiltersThenLatest(convs, cr, c) ==
    LET narrowed ==
          FilterDate(
            FilterSuccess(
              FilterAgent(
                FilterStatus(
                  FilterSearch(convs, cr.searchTerm),
                  cr.statusFilter),
                cr.agentFilter),
              cr.successFilter),
            cr.dateFilter, c)
    IN  IF cr.viewMode = "last"
        THEN IF Len(narrowed) > 0 THEN <<narrowed[1]>> ELSE <<>>
        ELSE narrowed

\* applyFilters: the value it hands to setFilteredConversations.
applyFilters(convs, cr, c) ==
    IF cr.viewMode = "last"
    THEN IF Len(convs) > 0 THEN <<convs[1]>> ELSE <<>>
    ELSE FilterDate(
           FilterSuccess(
             FilterAgent(
               FilterStatus(
                 FilterSearch(convs, cr.searchTerm),
                 cr.statusFilter),
               cr.agentFilter),
             cr.successFilter),
           cr.dateFilter, c)

\* getUniqueAgents: the agent options of the filter panel.
getUniqueAgents(convs) == { convs[i].agent_name : i \in 1..Len(convs) }

\* ------------------------------------------------------------------- state
VARIABLES
    conversations,          \* useState<Conversation[]>([])
    filteredConversations,  \* useState<Conversation[]>([])
    viewMode,               \* 'last' | 'all'
    loading,                \* the initial load is in flight
    error,                  \* string | null
    searchTerm, statusFilter, agentFilter, successFilter, dateFilter,
    clock,                  \* what Date.now() returns
    appliedAt,              \* the clock reading of the last applyFilters run
    effectPending,          \* a committed render's applyFilters effect is due
    deleteReqs,             \* DELETE requests in flight, per conversation id
    expandedQA,             \* the id whose Q&A panel is open, or null
    questions,              \* {[id]: question text}
    answers,                \* {[id]: answer text}
    loadingAnalysis,        \* {[id]: boolean}
    qaReqs,                 \* askQuestion calls awaiting a response, per id
    loadingSummary,         \* {[id]: boolean}
    geminiSummaries,        \* {[id]: summary text}
    summaryReqs,            \* generateGeminiSummary calls awaiting a response
    emailModal,             \* the id the email modal is open for, or null
    emailRecipient,         \* the recipient input of the modal
    emailPreview,           \* the preview text of the modal
    loadingEmailPreview,    \* boolean
    previewReqs,            \* generateEmailPreview calls awaiting a response
    previewFrom,            \* history: which opening of the modal emailPreview
                            \* was produced for
    sendReqs,               \* confirmSendEmail calls awaiting a response
    srvReq,                 \* server: the request an endpoint is handling
    srvPc,                  \* server: where the handler stands
    srvLocal,               \* server: the handler's locals across an await
    srvOutbound,            \* server: the outbound calls of this invocation
    srvResponses,           \* server: the JSON responses of this invocation
    srvReplies,             \* history: the upstream replies of this invocation
    srvCallerGone,          \* server: the fetch that made the request the
                            \* route is serving has rejected
    discussionLoading,      \* discussion page: useState(false) of loading
    analysis,               \* discussion page: useState('') of analysis
    templateReqs,           \* generateTemplate calls awaiting a response
    lastResponse            \* the response the latest step handled, if any

listVars ==
    <<conversations, filteredConversations, viewMode, loading, error,
      searchTerm, statusFilter, agentFilter, successFilter, dateFilter,
      clock, appliedAt, effectPending, deleteReqs>>

qaVars == <<expandedQA, questions, answers, loadingAnalysis, qaReqs>>

summaryVars == <<loadingSummary, geminiSummaries, summaryReqs>>

emailVars ==
    <<emailModal, emailRecipient, emailPreview, loadingEmailPreview,
      previewReqs, sendReqs, previewFrom>>

serverVars ==
    <<srvReq, srvPc, srvLocal, srvOutbound, srvResponses, srvReplies,
      srvCallerGone>>

discussionVars == <<discussionLoading, analysis, templateReqs>>

panelVars == <<qaVars, summaryVars, emailVars, serverVars, discussionVars>>

vars == <<listVars, lastResponse, panelVars>>

NULL == "null"
NoResponse == [op |-> "none"]
NoRequest == [endpoint |-> "none"]
NoLocal == [text |-> ""]
NoPreview == [kind |-> "empty"]     \* useState('') of emailPreview

criteria ==
    Criteria(viewMode, searchTerm, statusFilter, agentFilter, successFilter,
             dateFilter)

\* if (loading) / if (error): the dashboard proper is rendered.
Ready == ~loading /\ error = NULL

Displayed(id) == Ready /\ id \in IdsOf(filteredConversations)

Init ==
    /\ conversations = <<>>
    /\ filteredConversations = <<>>
    /\ viewMode = "last"
    /\ loading = TRUE
    /\ error = NULL
    /\ searchTerm = <<>>
    /\ statusFilter = "all"
    /\ agentFilter = ALL
    /\ successFilter = "all"
    /\ dateFilter = "all"
    /\ clock = Clock0
    /\ appliedAt = Clock0
    /\ effectPending = FALSE
    /\ deleteReqs = [id \in Ids |-> 0]
    /\ lastResponse = NoResponse
    /\ expandedQA = NULL
    /\ questions = [id \in Ids |-> <<>>]
    /\ answers = [id \in Ids |-> ""]
    /\ loadingAnalysis = [id \in Ids |-> FALSE]
    /\ qaReqs = [id \in Ids |-> <<>>]
    /\ loadingSummary = [id \in Ids |-> FALSE]
    /\ geminiSummaries = [id \in Ids |-> ""]
    /\ summaryReqs = [id \in Ids |-> <<>>]
    /\ emailModal = NULL
    /\ emailRecipient = ""
    /\ emailPreview = NoPreview
    /\ loadingEmailPreview = FALSE
    /\ previewReqs = <<>>
    /\ sendReqs = <<>>
    /\ previewFrom = "none"
    /\ srvReq = NoRequest
    /\ srvPc = "idle"
    /\ srvLocal = NoLocal
    /\ srvOutbound = <<>>
    /\ srvResponses = <<>>
    /\ srvReplies = <<>>
    /\ srvCallerGone = FALSE
    /\ discussionLoading = FALSE
    /\ analysis = ""
    /\ templateReqs = 0

\* useEffect(() => applyFilters(), [applyFilters]): runs after a render in
\* which one of applyFilters' dependencies changed.
RunEffect(convs, cr) ==
    /\ filteredConversations' = applyFilters(convs, cr, clock)
    /\ appliedAt' = clock

\* A setter of one or more filter states, followed by the effect when a
\* value changed (React skips the render when no state changed).
SetCriteria(cr) ==
    /\ viewMode' = cr.viewMode
    /\ searchTerm' = cr.searchTerm
    /\ statusFilter' = cr.statusFilter
    /\ agentFilter' = cr.agentFilter
    /\ successFilter' = cr.successFilter
    /\ dateFilter' = cr.dateFilter
    /\ IF cr # criteria
       THEN RunEffect(conversations, cr) /\ effectPending' = FALSE
       ELSE UNCHANGED <<filteredConversations, appliedAt, effectPending>>
    /\ lastResponse' = NoResponse
    /\ UNCHANGED <<conversations, loading, error, clock, deleteReqs>>
    /\ UNCHANGED panelVars

\* ---------------------------------------------------- list controller
ListOutcomes == {"ok", "notok", "throw", "malformed"}

\* The messages fetchConversations stores with setError on each failure:
\* its own Error for a non-success status, the thrown error's otherwise.
\* The text of a thrown error is the engine's: the rejection of fetch, and
\* the TypeError of data.conversations.sort on a body without the array, as
\* V8, SpiderMonkey and JavaScriptCore word them.
LoadErrorMessages(outcome) ==
    CASE outcome = "notok" -> {"Failed to fetch conversations"}
      [] outcome = "throw" ->
           {"Failed to fetch",
            "NetworkError when attempting to fetch resource.",
            "Load failed"}
      [] outcome = "malformed" ->
           {"Cannot read properties of undefined (reading 'sort')",
            "data.conversations is undefined",
            "undefined is not an object (evaluating 'data.conversations.sort')"}

\* setConversations of a new array: applyFilters is a new callback in the
\* render that commits it, so the effect is due after the commit.
ScheduleEffect == effectPending' = TRUE

\* fetchConversations from the response on, up to the render that commits
\* its writes: both lists hold the sorted response.  `body` is
\* data.conversations.
fetchConversations(outcome, body) ==
    /\ loading
    /\ IF outcome = "ok"
       THEN /\ conversations' = sortedConversations(body)
            /\ filteredConversations' = sortedConversations(body)
            /\ ScheduleEffect
            /\ UNCHANGED <<error, appliedAt>>
       ELSE /\ \E message \in LoadErrorMessages(outcome) : error' = message
            /\ UNCHANGED <<conversations, filteredConversations, appliedAt,
                           effectPending>>
    /\ loading' = FALSE
    /\ lastResponse' = [op |-> "list", outcome |-> outcome, body |-> body]
    /\ UNCHANGED <<viewMode, searchTerm, statusFilter, agentFilter,
                   successFilter, dateFilter, clock, deleteReqs>>
    /\ UNCHANGED panelVars

\* onClick={() => setViewMode('last' | 'all')}
setViewMode(vm) ==
    /\ Ready
    /\ SetCriteria([criteria EXCEPT !.viewMode = vm])

\* The filter panel is rendered in 'all' mode only.
PanelShown == Ready /\ viewMode = "all"

setSearchTerm(t) ==
    /\ PanelShown
    /\ SetCriteria([criteria EXCEPT !.searchTerm = t])

setStatusFilter(v) ==
    /\ PanelShown
    /\ SetCriteria([criteria EXCEPT !.statusFilter = v])

setAgentFilter(v) ==
    /\ PanelShown
    /\ v \in {ALL} \cup getUniqueAgents(conversations)
    /\ SetCriteria([criteria EXCEPT !.agentFilter = v])

setSuccessFilter(v) ==
    /\ PanelShown
    /\ SetCriteria([criteria EXCEPT !.successFilter = v])

setDateFilter(v) ==
    /\ PanelShown
    /\ SetCriteria([criteria EXCEPT !.dateFilter = v])

clearFilters ==
    /\ PanelShown
    /\ SetCriteria(Criteria(viewMode, <<>>, "all", ALL, "all", "all"))

\* Mutant of removeById: === for !==.
keepById(convs, id) ==
    LET Keep(conv) == conv.conversation_id = id
    IN  SelectSeq(convs, Keep)

\* prev.filter(conv => conv.conversation_id !== conversationId)
removeById(convs, id) ==
    LET Keep(conv) == conv.conversation_id # id
    IN  SelectSeq(convs, Keep)

DeleteOutcomes == {"ok", "notok", "throw"}

\* Mutant of responseOk: any response counts, whatever its status.
responseReceived(outcome) == outcome # "throw"

\* if (response.ok)
responseOk(outcome) == outcome = "ok"

RECURSIVE SumOver(_, _)
SumOver(f, S) ==
    IF S = {} THEN 0
    ELSE LET x == CHOOSE y \in S : TRUE IN f[x] + SumOver(f, S \ {x})

\* The number of requests a per-id counter holds.
InFlight(reqs) == SumOver(reqs, Ids)

\* deleteConversation up to its fetch: the row's delete button.
deleteConversation(id) ==
    /\ Displayed(id)
    /\ InFlight(deleteReqs) < MaxInFlight
    /\ deleteReqs' = [deleteReqs EXCEPT ![id] = @ + 1]
    /\ lastResponse' = NoResponse
    /\ UNCHANGED <<conversations, filteredConversations, viewMode, loading,
                   error, searchTerm, statusFilter, agentFilter,
                   successFilter, dateFilter, clock, appliedAt,
                   effectPending>>
    /\ UNCHANGED panelVars

\* The list shown by the render that commits a successful delete:
\* setFilteredConversations(prev => prev.filter(...)) takes the id out of
\* the list on screen.  When the effect of the render before is still due,
\* it runs before this render with the conversation list it closed over,
\* and its setFilteredConversations, queued after the filter, wins.
displayedAfterDelete(convs, shown, id, cr, c, pending) ==
    IF pending THEN applyFilters(convs, cr, c) ELSE removeById(shown, id)

\* deleteConversation from the response on, in the state of the list, up
\* to the render that commits its writes.
removeOnSuccess(id, outcome) ==
    /\ deleteReqs[id] > 0
    /\ deleteReqs' = [deleteReqs EXCEPT ![id] = @ - 1]
    /\ IF responseOk(outcome)
       THEN /\ conversations' = removeById(conversations, id)
            /\ filteredConversations' =
                 displayedAfterDelete(conversations, filteredConversations,
                                      id, criteria, clock, effectPending)
            /\ appliedAt' = IF effectPending THEN clock ELSE appliedAt
            /\ ScheduleEffect
       ELSE UNCHANGED <<conversations, filteredConversations, appliedAt,
                        effectPending>>
    /\ lastResponse' = [op |-> "delete", outcome |-> outcome]
    /\ UNCHANGED <<viewMode, loading, error, searchTerm, statusFilter,
                   agentFilter, successFilter, dateFilter, clock>>

\* deleteConversation from the response on.
deleteResponse(id, outcome) ==
    /\ removeOnSuccess(id, outcome)
    /\ UNCHANGED panelVars

\* useEffect(() => { applyFilters(); }, [applyFilters]) after the commit of
\* a render that changed the conversation list.
applyFiltersEffect ==
    /\ effectPending
    /\ RunEffect(conversations, criteria)
    /\ effectPending' = FALSE
    /\ lastResponse' = NoResponse
    /\ UNCHANGED <<conversations, viewMode, loading, error, searchTerm,
                   statusFilter, agentFilter, successFilter, dateFilter,
                   clock, deleteReqs>>
    /\ UNCHANGED panelVars

\* The state of the list a render leaves alone when only the effect runs.
listRest ==
    <<conversations, viewMode, loading, error, searchTerm, statusFilter,
      agentFilter, successFilter, dateFilter, clock, deleteReqs>>

\* A handler or continuation whose state writes cause a render: React runs
\* the effect that is still due from the render before (useEffect of
\* applyFilters) before it renders again, and the effect's write is part of
\* what this render commits.  A step that writes no state causes no render.
flushPassiveEffects(wrote) ==
    /\ IF wrote /\ effectPending
       THEN RunEffect(conversations, criteria) /\ effectPending' = FALSE
       ELSE UNCHANGED <<filteredConversations, appliedAt, effectPending>>
    /\ UNCHANGED listRest

\* Time passes: Date.now() returns a later value.
Elapsed(c) == (c.secs - Now0) * 1000 + c.ms

Tick ==
    /\ Elapsed(clock) < MaxTicks * TickMs
    /\ clock' = AdvanceClock(clock)
    /\ lastResponse' = NoResponse
    /\ UNCHANGED <<conversations, filteredConversations, viewMode, loading,
                   error, searchTerm, statusFilter, agentFilter,
                   successFilter, dateFilter, appliedAt, effectPending,
                   deleteReqs>>
    /\ UNCHANGED panelVars

\* ------------------------------------------------------------- Q&A panel
MaxRows == 2           \* conversations loaded when the row panels are explored

RowBodies == { b \in Bodies : Len(b) <= MaxRows }

QuestionTexts == {<<>>, <<" ">>, <<"q", " ">>}
AnswerTexts == {"Next Friday.", "No answer generated"}
ErrorAnswer == "Error analyzing transcript. Please try again."
RequestOutcomes == {"ok", "notok", "throw"}

\* prev => ({ ...prev, [conversationId]: value })
withEntry(map, id, value) == [map EXCEPT ![id] = value]

RemoveAt(seq, k) == SubSeq(seq, 1, k - 1) \o SubSeq(seq, k + 1, Len(seq))

\* Mutant of toggleQA: a panel that is open elsewhere stays open.
toggleQAKeepingOthers(id) ==
    /\ Displayed(id)
    /\ expandedQA' = IF expandedQA = id THEN NULL
                     ELSE IF expandedQA = NULL THEN id ELSE expandedQA
    /\ lastResponse' = NoResponse
    /\ UNCHANGED <<questions, answers, loadingAnalysis, qaReqs>>
    /\ flushPassiveEffects(expandedQA = id \/ expandedQA = NULL)
    /\ UNCHANGED <<serverVars, discussionVars, summaryVars, emailVars>>

\* const toggleQA: one panel is open at a time.
toggleQA(id) ==
    /\ Displayed(id)
    /\ expandedQA' = IF expandedQA = id THEN NULL ELSE id
    /\ lastResponse' = NoResponse
    /\ UNCHANGED <<questions, answers, loadingAnalysis, qaReqs>>
    /\ flushPassiveEffects(TRUE)
    /\ UNCHANGED <<serverVars, discussionVars, summaryVars, emailVars>>

PanelOpen(id) == Displayed(id) /\ expandedQA = id

\* disabled={loadingAnalysis[id]} of the question input.
InputDisabled(id) == loadingAnalysis[id]

\* onChange of the question input.
setQuestion(id, text) ==
    /\ PanelOpen(id)
    /\ ~InputDisabled(id)
    /\ text # questions[id]
    /\ questions' = [questions EXCEPT ![id] = text]
    /\ lastResponse' = NoResponse
    /\ UNCHANGED <<expandedQA, answers, loadingAnalysis, qaReqs>>
    /\ flushPassiveEffects(TRUE)
    /\ UNCHANGED <<serverVars, discussionVars, summaryVars, emailVars>>

\* Mutant of SendDisabled: the button stays enabled while a request runs.
SendDisabledWhenBlank(id) == trim(questions[id]) = <<>>

\* disabled={loadingAnalysis[id] || !questions[id]?.trim()} of the button.
SendDisabled(id) == loadingAnalysis[id] \/ trim(questions[id]) = <<>>

\* e.key === 'Enter' && !loadingAnalysis[id]
EnterSubmits(id) == ~loadingAnalysis[id]

\* askQuestion up to its first fetch (GET /api/conversations/{id}).
askQuestion(id) ==
    /\ Len(qaReqs[id]) < MaxInFlight
    /\ IF trim(questions[id]) = <<>>
       THEN UNCHANGED <<loadingAnalysis, qaReqs>>
       ELSE /\ loadingAnalysis' = [loadingAnalysis EXCEPT ![id] = TRUE]
            /\ qaReqs' = [qaReqs EXCEPT ![id] =
                  Append(@, [stage |-> "details", question |-> questions[id]])]
    /\ lastResponse' = NoResponse
    /\ UNCHANGED <<expandedQA, questions, answers>>
    /\ flushPassiveEffects(trim(questions[id]) # <<>>)
    /\ UNCHANGED <<serverVars, discussionVars, summaryVars, emailVars>>

\* onClick of the Send button.
clickSend(id) ==
    /\ PanelOpen(id)
    /\ ~SendDisabled(id)
    /\ askQuestion(id)

\* onKeyPress of the question input.
pressEnter(id) ==
    /\ PanelOpen(id)
    /\ ~InputDisabled(id)
    /\ EnterSubmits(id)
    /\ askQuestion(id)

\* Mutant of qaDetailsResponse: the failure path ends in catch, with no
\* finally.
qaDetailsResponseNoFinally(id, k, outcome) ==
    /\ k \in 1..Len(qaReqs[id])
    /\ qaReqs[id][k].stage = "details"
    /\ IF outcome = "ok"
       THEN /\ qaReqs' = [qaReqs EXCEPT ![id][k].stage = "analyze"]
            /\ UNCHANGED answers
       ELSE /\ qaReqs' = [qaReqs EXCEPT ![id] = RemoveAt(@, k)]
            /\ answers' = withEntry(answers, id, ErrorAnswer)
    /\ UNCHANGED loadingAnalysis
    /\ lastResponse' = [op |-> "qa"]
    /\ UNCHANGED <<expandedQA, questions>>
    /\ flushPassiveEffects(outcome # "ok")
    /\ UNCHANGED <<serverVars, discussionVars, summaryVars, emailVars>>

\* askQuestion from the response of GET /api/conversations/{id} on: a
\* success posts transcript and question to /api/analyze, a failure goes
\* to catch and finally.
qaDetailsResponse(id, k, outcome) ==
    /\ k \in 1..Len(qaReqs[id])
    /\ qaReqs[id][k].stage = "details"
    /\ IF outcome = "ok"
       THEN /\ qaReqs' = [qaReqs EXCEPT ![id][k].stage = "analyze"]
            /\ UNCHANGED <<answers, loadingAnalysis>>
       ELSE /\ qaReqs' = [qaReqs EXCEPT ![id] = RemoveAt(@, k)]
            /\ answers' = withEntry(answers, id, ErrorAnswer)
            /\ loadingAnalysis' = [loadingAnalysis EXCEPT ![id] = FALSE]
    /\ lastResponse' = [op |-> "qa"]
    /\ UNCHANGED <<expandedQA, questions>>
    /\ flushPassiveEffects(outcome # "ok")
    /\ UNCHANGED <<serverVars, discussionVars, summaryVars, emailVars>>

\* askQuestion from the response of POST /api/analyze on.
qaAnalyzeResponse(id, k, outcome, answer) ==
    /\ k \in 1..Len(qaReqs[id])
    /\ qaReqs[id][k].stage = "analyze"
    /\ qaReqs' = [qaReqs EXCEPT ![id] = RemoveAt(@, k)]
    /\ answers' = withEntry(answers, id,
                      IF outcome = "ok" THEN answer ELSE ErrorAnswer)
    /\ loadingAnalysis' = [loadingAnalysis EXCEPT ![id] = FALSE]
    /\ lastResponse' = [op |-> "qa"]
    /\ UNCHANGED <<expandedQA, questions>>
    /\ flushPassiveEffects(TRUE)
    /\ UNCHANGED <<serverVars, discussionVars, summaryVars, emailVars>>

\* ----------------------------------------------------------- summaries
\* What the generative-text provider returns as the first candidate's text;
\* "" stands for a response with no candidate.
CandidateTexts == {"", "1. Ship"}

\* data.candidates?.[0]?.content?.parts?.[0]?.text || 'No summary generated'
summaryOf(text) == IF text = "" THEN "No summary generated" ELSE text

\* Mutant of AlreadySummarised: only a cached summary stops the call.
SummaryCached(id) == geminiSummaries[id] # ""

\* if (geminiSummaries[conversationId] || loadingSummary[conversationId])
AlreadySummarised(id) == geminiSummaries[id] # "" \/ loadingSummary[id]

\* generateGeminiSummary up to its first fetch.  The row renders its button
\* only while the id is neither loading nor cached; the function's own test
\* answers a call from any other render.
generateGeminiSummary(id) ==
    /\ Displayed(id)
    /\ IF AlreadySummarised(id)
       THEN UNCHANGED <<loadingSummary, summaryReqs>>
       ELSE /\ Len(summaryReqs[id]) < MaxInFlight
            /\ loadingSummary' = [loadingSummary EXCEPT ![id] = TRUE]
            /\ summaryReqs' = [summaryReqs EXCEPT ![id] =
                  Append(@, [stage |-> "details"])]
    /\ lastResponse' = NoResponse
    /\ UNCHANGED geminiSummaries
    /\ flushPassiveEffects(~AlreadySummarised(id))
    /\ UNCHANGED <<serverVars, discussionVars, qaVars, emailVars>>

\* generateGeminiSummary from the response of GET /api/conversations/{id} on.
summaryDetailsResponse(id, k, outcome) ==
    /\ k \in 1..Len(summaryReqs[id])
    /\ summaryReqs[id][k].stage = "details"
    /\ IF outcome = "ok"
       THEN /\ summaryReqs' = [summaryReqs EXCEPT ![id][k].stage = "generate"]
            /\ UNCHANGED loadingSummary
       ELSE /\ summaryReqs' = [summaryReqs EXCEPT ![id] = RemoveAt(@, k)]
            /\ loadingSummary' = [loadingSummary EXCEPT ![id] = FALSE]
    /\ lastResponse' = [op |-> "summary", outcome |-> outcome]
    /\ UNCHANGED geminiSummaries
    /\ flushPassiveEffects(outcome # "ok")
    /\ UNCHANGED <<serverVars, discussionVars, qaVars, emailVars>>

\* generateGeminiSummary from the response of POST /api/generate-summary on.
summaryGenerateResponse(id, k, outcome, text) ==
    /\ k \in 1..Len(summaryReqs[id])
    /\ summaryReqs[id][k].stage = "generate"
    /\ summaryReqs' = [summaryReqs EXCEPT ![id] = RemoveAt(@, k)]
    /\ geminiSummaries' =
         IF outcome = "ok"
         THEN [geminiSummaries EXCEPT ![id] = summaryOf(text)]
         ELSE geminiSummaries
    /\ loadingSummary' = [loadingSummary EXCEPT ![id] = FALSE]
    /\ lastResponse' = [op |-> "summary", outcome |-> outcome]
    /\ flushPassiveEffects(TRUE)
    /\ UNCHANGED <<serverVars, discussionVars, qaVars, emailVars>>

\* ---------------------------------------------------------- email modal
MaxSends == 2          \* send requests in flight at once

Recipients == {"", "ann@example.com"}

\* new Date().toLocaleDateString(), as the day number of the clock reading.
DateOf(c) == c.secs \div 86400

\* The template of the preview with recipient, summary and date filled in.
previewText(recipient, summary, c) ==
    [kind |-> "agenda", recipient |-> recipient, summary |-> summary,
     date |-> DateOf(c)]

\* The template shown when the summary could not be generated.
fallbackText(recipient, c) ==
    [kind |-> "fallback", recipient |-> recipient, summary |-> "",
     date |-> DateOf(c)]

\* const openEmailModal
openEmailModal(id) ==
    /\ Displayed(id)
    /\ emailModal' = id
    /\ lastResponse' = NoResponse
    /\ UNCHANGED <<emailRecipient, emailPreview, loadingEmailPreview,
                   previewReqs, sendReqs, previewFrom>>
    /\ flushPassiveEffects(TRUE)
    /\ UNCHANGED <<serverVars, discussionVars, qaVars, summaryVars>>

ModalOpen == Ready /\ emailModal # NULL

\* onChange of the recipient input.
setEmailRecipient(r) ==
    /\ ModalOpen
    /\ r # emailRecipient
    /\ emailRecipient' = r
    /\ lastResponse' = NoResponse
    /\ UNCHANGED <<emailModal, emailPreview, loadingEmailPreview,
                   previewReqs, sendReqs, previewFrom>>
    /\ flushPassiveEffects(TRUE)
    /\ UNCHANGED <<serverVars, discussionVars, qaVars, summaryVars>>

\* Mutant of cachedSummary: the cache is never consulted.
noCachedSummary(id) == ""

\* let summary = geminiSummaries[conversationId]
cachedSummary(id) == geminiSummaries[id]

\* History: the opening of the modal a preview call was made in, seen from
\* the moment its response arrives.
OriginOf(req) == IF req.closed THEN "earlier opening" ELSE "this opening"

\* History: the modal closes, so the calls in flight belong to an earlier
\* opening from now on.
Outlived(reqs) == [k \in 1..Len(reqs) |-> [reqs[k] EXCEPT !.closed = TRUE]]

\* generateEmailPreview up to its first fetch; with a cached summary it runs
\* to its end without a request.
generateEmailPreview(id) ==
    /\ IF cachedSummary(id) # ""
       THEN /\ emailPreview' =
                 previewText(emailRecipient, cachedSummary(id), clock)
            /\ previewFrom' = "this opening"
            /\ UNCHANGED <<loadingEmailPreview, previewReqs>>
       ELSE /\ Len(previewReqs) < MaxInFlight
            /\ loadingEmailPreview' = TRUE
            /\ previewReqs' = Append(previewReqs,
                 [stage |-> "details", id |-> id,
                  recipient |-> emailRecipient, closed |-> FALSE])
            /\ UNCHANGED <<emailPreview, previewFrom>>
    /\ lastResponse' = NoResponse
    /\ UNCHANGED <<emailModal, emailRecipient, sendReqs>>
    /\ flushPassiveEffects(TRUE)
    /\ UNCHANGED <<serverVars, discussionVars, qaVars, summaryVars>>

\* onClick of "Preview email content": rendered when emailRecipient is not
\* empty, disabled={loadingEmailPreview}.
clickPreview ==
    /\ ModalOpen
    /\ emailRecipient # ""
    /\ ~loadingEmailPreview
    /\ generateEmailPreview(emailModal)

\* generateEmailPreview from the response of GET /api/conversations/{id} on.
previewDetailsResponse(k, outcome) ==
    /\ k \in 1..Len(previewReqs)
    /\ previewReqs[k].stage = "details"
    /\ IF outcome = "ok"
       THEN /\ previewReqs' = [previewReqs EXCEPT ![k].stage = "generate"]
            /\ UNCHANGED <<emailPreview, loadingEmailPreview, previewFrom>>
       ELSE /\ previewReqs' = RemoveAt(previewReqs, k)
            /\ emailPreview' = fallbackText(previewReqs[k].recipient, clock)
            /\ previewFrom' = OriginOf(previewReqs[k])
            /\ loadingEmailPreview' = FALSE
    /\ lastResponse' = [op |-> "preview"]
    /\ UNCHANGED <<emailModal, emailRecipient, sendReqs>>
    /\ flushPassiveEffects(outcome # "ok")
    /\ UNCHANGED <<serverVars, discussionVars, qaVars, summaryVars>>

\* generateEmailPreview from the response of POST /api/generate-summary on.
previewSummaryResponse(k, outcome, text) ==
    /\ k \in 1..Len(previewReqs)
    /\ previewReqs[k].stage = "generate"
    /\ previewReqs' = RemoveAt(previewReqs, k)
    /\ previewFrom' = OriginOf(previewReqs[k])
    /\ IF outcome = "ok"
       THEN /\ geminiSummaries' =
                 [geminiSummaries EXCEPT ![previewReqs[k].id] = summaryOf(text)]
            /\ emailPreview' =
                 previewText(previewReqs[k].recipient, summaryOf(text), clock)
       ELSE /\ emailPreview' = fallbackText(previewReqs[k].recipient, clock)
            /\ UNCHANGED geminiSummaries
    /\ loadingEmailPreview' = FALSE
    /\ lastResponse' = [op |-> "preview"]
    /\ UNCHANGED <<emailModal, emailRecipient, sendReqs>>
    /\ UNCHANGED <<loadingSummary, summaryReqs>>
    /\ flushPassiveEffects(TRUE)
    /\ UNCHANGED <<serverVars, discussionVars, qaVars>>

\* onClick of Cancel.
cancelEmail ==
    /\ ModalOpen
    /\ emailModal' = NULL
    /\ emailRecipient' = ""
    /\ emailPreview' = NoPreview
    /\ previewFrom' = "none"
    /\ previewReqs' = Outlived(previewReqs)
    /\ sendReqs' = Outlived(sendReqs)
    /\ lastResponse' = NoResponse
    /\ UNCHANGED loadingEmailPreview
    /\ flushPassiveEffects(TRUE)
    /\ UNCHANGED <<serverVars, discussionVars, qaVars, summaryVars>>

\* disabled={!emailRecipient || !emailPreview} of "Send Email".
SendEmailDisabled == emailRecipient = "" \/ emailPreview = NoPreview

\* confirmSendEmail up to its fetch (POST /api/space-fact-email): the body
\* carries the conversation id and the recipient; `shown` keeps the summary
\* the preview showed at the click (none in the fallback text) and `closed`
\* whether the modal was closed since.
confirmSendEmail(id) ==
    /\ Len(sendReqs) < MaxSends
    /\ sendReqs' = Append(sendReqs,
                          [id |-> id, recipient |-> emailRecipient,
                           shown |-> emailPreview.summary,
                           closed |-> FALSE])
    /\ lastResponse' = NoResponse
    /\ UNCHANGED <<emailModal, emailRecipient, emailPreview,
                   loadingEmailPreview, previewReqs, previewFrom>>
    /\ flushPassiveEffects(FALSE)
    /\ UNCHANGED <<serverVars, discussionVars, qaVars, summaryVars>>

\* onClick of "Send Email".
clickSendEmail ==
    /\ ModalOpen
    /\ ~SendEmailDisabled
    /\ confirmSendEmail(emailModal)

\* Mutant of sendOk: any response counts as a success.
sendReturned(outcome) == TRUE

\* if (response.ok) of confirmSendEmail; a rejected fetch goes to catch.
sendOk(outcome) == outcome = "ok"

\* The summary in the mail of the agenda endpoint: the one it has generated
\* for the conversation id of the request, from the provider's text.
mailedSummary(text) ==
    IF summaryOf(text) # "" THEN summaryOf(text)
    ELSE "Unable to generate meeting agenda at this time."

\* confirmSendEmail from the response of POST /api/space-fact-email on;
\* `text` is what the provider gave the endpoint for its summary.
sendResponse(k, outcome, text) ==
    /\ k \in 1..Len(sendReqs)
    /\ sendReqs' = IF sendOk(outcome)
                   THEN Outlived(RemoveAt(sendReqs, k))
                   ELSE RemoveAt(sendReqs, k)
    /\ IF sendOk(outcome)
       THEN /\ emailModal' = NULL
            /\ emailRecipient' = ""
            /\ emailPreview' = NoPreview
            /\ previewFrom' = "none"
            /\ previewReqs' = Outlived(previewReqs)
       ELSE UNCHANGED <<emailModal, emailRecipient, emailPreview,
                        previewFrom, previewReqs>>
    /\ lastResponse' =
         [op |-> "send", outcome |-> outcome,
          mailed |-> IF outcome = "ok" THEN mailedSummary(text) ELSE ""]
    /\ UNCHANGED loadingEmailPreview
    /\ flushPassiveEffects(sendOk(outcome))
    /\ UNCHANGED <<serverVars, discussionVars, qaVars, summaryVars>>

\* The response of GET /api/conversations reaches fetchConversations; only
\* a success carries a body.
loadResponse(bodies) ==
    \E o \in ListOutcomes :
        \E b \in (IF o = "ok" THEN bodies ELSE {<<>>}) :
            fetchConversations(o, b)

Next ==
    \/ loadResponse(Bodies)
    \/ applyFiltersEffect
    \/ \E vm \in {"last", "all"} : setViewMode(vm)
    \/ \E t \in SearchTerms : setSearchTerm(t)
    \/ \E v \in StatusOptions : setStatusFilter(v)
    \/ \E v \in {ALL, AgentAl, AgentBo} : setAgentFilter(v)
    \/ \E v \in SuccessOptions : setSuccessFilter(v)
    \/ \E v \in DateOptions : setDateFilter(v)
    \/ clearFilters
    \/ \E id \in Ids : deleteConversation(id)
    \/ \E id \in Ids, o \in DeleteOutcomes : deleteResponse(id, o)
    \/ Tick

Spec == Init /\ [][Next]_vars

\* The Q&A panels of the rows of a loaded list.  The filters and deletes only
\* narrow the set of rows that are shown, so they are left to Spec.
NextQA ==
    \/ loadResponse(RowBodies)
    \/ applyFiltersEffect
    \/ \E vm \in {"last", "all"} : setViewMode(vm)
    \/ \E id \in Ids : toggleQA(id)
    \/ \E id \in Ids, text \in QuestionTexts : setQuestion(id, text)
    \/ \E id \in Ids : clickSend(id)
    \/ \E id \in Ids : pressEnter(id)
    \/ \E id \in Ids, k \in 1..MaxInFlight, o \in RequestOutcomes :
          qaDetailsResponse(id, k, o)
    \/ \E id \in Ids, k \in 1..MaxInFlight, o \in RequestOutcomes,
          a \in AnswerTexts :
          qaAnalyzeResponse(id, k, o, a)

SpecQA == Init /\ [][NextQA]_vars

\* The summaries of the rows and the preview of the email modal, the two
\* writers of geminiSummaries.  Sending reads and writes none of the summary
\* state and is left to SpecEmail.
NextSummary ==
    \/ loadResponse(RowBodies)
    \/ applyFiltersEffect
    \/ \E vm \in {"last", "all"} : setViewMode(vm)
    \/ \E id \in Ids : generateGeminiSummary(id)
    \/ \E id \in Ids, k \in 1..MaxInFlight, o \in RequestOutcomes :
          summaryDetailsResponse(id, k, o)
    \/ \E id \in Ids, k \in 1..MaxInFlight, o \in RequestOutcomes,
          t \in CandidateTexts :
          summaryGenerateResponse(id, k, o, t)
    \/ \E id \in Ids : openEmailModal(id)
    \/ \E r \in Recipients : setEmailRecipient(r)
    \/ clickPreview
    \/ \E k \in 1..MaxInFlight, o \in RequestOutcomes :
          previewDetailsResponse(k, o)
    \/ \E k \in 1..MaxInFlight, o \in RequestOutcomes, t \in CandidateTexts :
          previewSummaryResponse(k, o, t)
    \/ cancelEmail

SpecSummary == Init /\ [][NextSummary]_vars

MaxOps == 3            \* operations whose request or result the state holds

\* The operations the state holds a trace of: a request in flight, an answer,
\* a summary, a preview.
Traces ==
    SumOver([id \in Ids |->
               Len(qaReqs[id]) + Len(summaryReqs[id])
               + (IF answers[id] # "" THEN 1 ELSE 0)
               + (IF geminiSummaries[id] # "" THEN 1 ELSE 0)], Ids)
    + Len(previewReqs) + Len(sendReqs)
    + (IF emailPreview # NoPreview THEN 1 ELSE 0)
    + templateReqs + (IF analysis # "" THEN 1 ELSE 0)

\* The email modal alone: opening, recipient, preview, cancel and send.  The
\* preview is then the only writer of geminiSummaries; the row's own summary
\* generation is explored with the preview in SpecSummary.  A preview or a
\* send is started only while the state holds fewer than MaxOps traces of
\* earlier operations.
NextEmail ==
    \/ loadResponse(RowBodies)
    \/ applyFiltersEffect
    \/ \E vm \in {"last", "all"} : setViewMode(vm)
    \/ \E id \in Ids : openEmailModal(id)
    \/ \E r \in Recipients : setEmailRecipient(r)
    \/ Traces < MaxOps /\ clickPreview
    \/ \E k \in 1..MaxInFlight, o \in RequestOutcomes :
          previewDetailsResponse(k, o)
    \/ \E k \in 1..MaxInFlight, o \in RequestOutcomes, t \in CandidateTexts :
          previewSummaryResponse(k, o, t)
    \/ cancelEmail
    \/ Traces < MaxOps /\ clickSendEmail
    \/ \E k \in 1..MaxSends, o \in RequestOutcomes, t \in CandidateTexts :
          sendResponse(k, o, t)

SpecEmail == Init /\ [][NextEmail]_vars

\* The rows of the list when the three kinds of operation run side by side.
PanelIds == {"c1", "c2"}

\* The bodies of a successful load there: both rows, in either order, or
\* no conversation at all.
PanelBodies == {b \in Bodies : IdsOf(b) = PanelIds} \cup {<<>>}

\* A response with a success or a non-success status; the handlers of the
\* row operations treat a rejected fetch as they treat the latter.
StatusOutcomes == {"ok", "notok"}

\* The three kinds of row operation side by side, each with its failures:
\* the rows PanelIds all on display, one question text, one summary text,
\* one recipient, and a new operation only while the state holds fewer than
\* MaxOps traces of earlier ones.
NextPanels ==
    \/ loadResponse(PanelBodies)
    \/ applyFiltersEffect
    \/ setViewMode("all")
    \/ \E id \in Ids : toggleQA(id)
    \/ \E id \in Ids : setQuestion(id, <<"q", " ">>)
    \/ \E id \in Ids : Traces < MaxOps /\ clickSend(id)
    \/ \E id \in Ids, k \in 1..MaxInFlight, o \in StatusOutcomes :
          qaDetailsResponse(id, k, o)
    \/ \E id \in Ids, k \in 1..MaxInFlight, o \in StatusOutcomes :
          qaAnalyzeResponse(id, k, o, "Next Friday.")
    \/ \E id \in Ids : Traces < MaxOps /\ generateGeminiSummary(id)
    \/ \E id \in Ids, k \in 1..MaxInFlight, o \in StatusOutcomes :
          summaryDetailsResponse(id, k, o)
    \/ \E id \in Ids, k \in 1..MaxInFlight, o \in StatusOutcomes :
          summaryGenerateResponse(id, k, o, "1. Ship")
    \/ \E id \in Ids : openEmailModal(id)
    \/ setEmailRecipient("ann@example.com")
    \/ Traces < MaxOps /\ clickPreview
    \/ \E k \in 1..MaxInFlight, o \in StatusOutcomes :
          previewDetailsResponse(k, o)
    \/ \E k \in 1..MaxInFlight, o \in StatusOutcomes :
          previewSummaryResponse(k, o, "1. Ship")
    \/ cancelEmail
    \/ Traces < MaxOps /\ clickSendEmail
    \/ \E k \in 1..MaxSends, o \in RequestOutcomes, t \in CandidateTexts :
          sendResponse(k, o, t)

SpecPanels == Init /\ [][NextPanels]_vars

\* ------------------------------------------------------- discussion page
\* What /api/gemini-template returns as analysis on success.
AnalysisTexts == {"## Custom template"}
TemplateError == "Error generating analysis. Please try again."

\* generateTemplate up to its fetch: onClick of the button, which is
\* disabled={loading}.
generateTemplate ==
    /\ ~discussionLoading
    /\ discussionLoading' = TRUE
    /\ templateReqs' = templateReqs + 1
    /\ lastResponse' = NoResponse
    /\ UNCHANGED analysis
    /\ UNCHANGED <<listVars, qaVars, summaryVars, emailVars, serverVars>>

\* generateTemplate from the response on: try, catch and finally.
templateResponse(outcome, text) ==
    /\ templateReqs > 0
    /\ templateReqs' = templateReqs - 1
    /\ analysis' = IF outcome = "ok" THEN text ELSE TemplateError
    /\ discussionLoading' = FALSE
    /\ lastResponse' = [op |-> "template"]
    /\ UNCHANGED <<listVars, qaVars, summaryVars, emailVars, serverVars>>

\* ----------------------------------------------------- the loading flags
\* Every operation that sets a loading flag, with all of its outcomes: the
\* initial load, the questions, the summaries and the preview on the row
\* of one conversation, and the discussion page's template.  A new operation starts
\* only while the state holds fewer than MaxOps traces of earlier ones.
LoadingBodies == {b \in Bodies : IdsOf(b) \subseteq {"c1"}}

NextLoading ==
    \/ loadResponse(LoadingBodies)
    \/ applyFiltersEffect
    \/ \E id \in Ids : toggleQA(id)
    \/ \E id \in Ids : setQuestion(id, <<"q", " ">>)
    \/ \E id \in Ids : Traces < MaxOps /\ clickSend(id)
    \/ \E id \in Ids : Traces < MaxOps /\ pressEnter(id)
    \/ \E id \in Ids, k \in 1..MaxInFlight, o \in RequestOutcomes :
          qaDetailsResponse(id, k, o)
    \/ \E id \in Ids, k \in 1..MaxInFlight, o \in RequestOutcomes :
          qaAnalyzeResponse(id, k, o, "Next Friday.")
    \/ \E id \in Ids : Traces < MaxOps /\ generateGeminiSummary(id)
    \/ \E id \in Ids, k \in 1..MaxInFlight, o \in RequestOutcomes :
          summaryDetailsResponse(id, k, o)
    \/ \E id \in Ids, k \in 1..MaxInFlight, o \in RequestOutcomes :
          summaryGenerateResponse(id, k, o, "1. Ship")
    \/ \E id \in Ids : openEmailModal(id)
    \/ setEmailRecipient("ann@example.com")
    \/ Traces < MaxOps /\ clickPreview
    \/ \E k \in 1..MaxInFlight, o \in RequestOutcomes :
          previewDetailsResponse(k, o)
    \/ \E k \in 1..MaxInFlight, o \in RequestOutcomes :
          previewSummaryResponse(k, o, "1. Ship")
    \/ cancelEmail
    \/ Traces < MaxOps /\ generateTemplate
    \/ \E o \in RequestOutcomes, t \in AnalysisTexts : templateResponse(o, t)

SpecLoading == Init /\ [][NextLoading]_vars

\* Every fetch settles: a request in flight is answered or rejects.
EveryFetchSettles ==
    /\ WF_vars(loadResponse(LoadingBodies))
    /\ \A id \in Ids :
          /\ WF_vars(\E k \in 1..MaxInFlight, o \in RequestOutcomes :
                        qaDetailsResponse(id, k, o))
          /\ WF_vars(\E k \in 1..MaxInFlight, o \in RequestOutcomes :
                        qaAnalyzeResponse(id, k, o, "Next Friday."))
          /\ WF_vars(\E k \in 1..MaxInFlight, o \in RequestOutcomes :
                        summaryDetailsResponse(id, k, o))
          /\ WF_vars(\E k \in 1..MaxInFlight, o \in RequestOutcomes :
                        summaryGenerateResponse(id, k, o, "1. Ship"))
    /\ WF_vars(\E k \in 1..MaxInFlight, o \in RequestOutcomes :
                  previewDetailsResponse(k, o))
    /\ WF_vars(\E k \in 1..MaxInFlight, o \in RequestOutcomes :
                  previewSummaryResponse(k, o, "1. Ship"))
    /\ WF_vars(\E o \in RequestOutcomes, t \in AnalysisTexts :
                  templateResponse(o, t))

SpecLoadingFair == SpecLoading /\ EveryFetchSettles

\* ------------------------------------------------------- server endpoints
\* The route handlers. An invocation is a request (the environment the
\* process runs with, the JSON body) handled in segments: from its arrival
\* to the first awaited fetch, from each upstream reply to the next fetch,
\* and to the one NextResponse.json that ends it.

\* The environment variables the handlers read. A variable that is set to
\* the empty string is falsy, as one that is unset: present here means set
\* to a non-empty value. NEXT_PUBLIC_BASE_URL only chooses the host of the
\* calls the email endpoint makes to its own application and has a default.
EnvVars ==
    {"GEMINI_API_KEY", "ELEVENLABS_API_KEY", "MAILGUN_API_KEY",
     "EMAIL_RECIPIENTS", "EMAIL_SUBJECT"}

Envs == SUBSET EnvVars

\* The values the two mail variables hold when they are set.
DefaultRecipient == "team@example.com"
ConfiguredSubject == "Space fact of the day"

\* emailSubject || '(U+1F30C) Your Space Fact': the default subject starts
\* with the milky-way emoji, written here as JavaScript escapes its two
\* code units.
DefaultSubject == "\\uD83C\\uDF0C Your Space Fact"

\* The endpoints: the two generate-summary handlers differ in their prompt.
GeminiEndpoints ==
    {"analyze", "generate-summary", "generate-summary-sections",
     "gemini-template"}
ConversationEndpoints == {"conversations GET", "conversations DELETE"}
EmailEndpoints == {"space-fact-email", "agenda-email"}
Endpoints == GeminiEndpoints \cup ConversationEndpoints \cup EmailEndpoints

\* JSON values of a body: a string field that may be absent, an array
\* field that may be absent. An absent field destructures to undefined.
NoString == [s |-> "", defined |-> FALSE]
Str(s) == [s |-> s, defined |-> TRUE]
NoArray == [defined |-> FALSE, turns |-> <<>>]
Arr(turns) == [defined |-> TRUE, turns |-> turns]

\* !value for the two kinds: undefined and "" are falsy, every array,
\* the empty one too, is truthy.
truthyString(v) == v.defined /\ v.s # ""
truthyArray(v) == v.defined

TwoTurns ==
    << [message |-> "What is the deadline?", role |-> "user"],
       [message |-> "Next Friday.", role |-> "agent"] >>

Transcripts == {NoArray, Arr(<<>>), Arr(TwoTurns)}
Questions == {NoString, Str(""), Str("When is the deadline?")}
Discussions == {NoString, Str(""), Str("Issue: onboarding is slow")}
ConversationIds == {NoString, Str("c1")}
RequestRecipients == {NoString, Str(""), Str("bob@example.com")}

\* A body whose text is not JSON makes request.json() reject.
Malformed ==
    [question |-> NoString, recipient |-> NoString,
     conversationId |-> NoString, discussionContent |-> NoString,
     parses |-> FALSE, transcript |-> NoArray]

EmptyBody == [Malformed EXCEPT !.parses = TRUE]

\* The bodies sent to an endpoint: the fields its handler destructures, and
\* for both email endpoints the recipient a caller may name.
BodiesOf(endpoint) ==
    {Malformed} \cup
    CASE endpoint = "analyze" ->
           { [EmptyBody EXCEPT !.transcript = t, !.question = q] :
               t \in Transcripts, q \in Questions }
      [] endpoint \in {"generate-summary", "generate-summary-sections"} ->
           { [EmptyBody EXCEPT !.transcript = t] : t \in Transcripts }
      [] endpoint = "gemini-template" ->
           { [EmptyBody EXCEPT !.discussionContent = d] : d \in Discussions }
      [] endpoint \in {"space-fact-email", "agenda-email"} ->
           { [EmptyBody EXCEPT !.conversationId = c, !.recipient = r] :
               c \in ConversationIds, r \in RequestRecipients }
      [] OTHER -> {EmptyBody}

\* What an awaited fetch comes back with: a response with a success status
\* and its JSON, a response with another status, or a rejection (of the
\* fetch or of response.json()). cands is the length of candidates, text
\* the text of the first candidate or the summary field, transcript the
\* transcript field of conversation details.
Reply(status, cands, text, transcript) ==
    [status |-> status, text |-> text, transcript |-> transcript,
     cands |-> cands]

Failures == {Reply(s, 0, "", NoArray) : s \in {"notok", "throw"}}

RepliesOf(callee) ==
    Failures \cup
    CASE callee = "gemini" ->
           {Reply("ok", 0, "", NoArray), Reply("ok", 1, "", NoArray),
            Reply("ok", 1, "Next Friday.", NoArray)}
      [] callee = "elevenlabs" -> {Reply("ok", 0, "details", Arr(TwoTurns))}
      [] callee = "mailgun" -> {Reply("ok", 0, "", NoArray)}
      [] callee = "conversations" ->
           {Reply("ok", 0, "details", t) : t \in Transcripts}
      [] callee = "generate-summary" ->
           {Reply("ok", 0, s, NoArray) : s \in {"", "1. Ship"}}

Callees ==
    {"gemini", "elevenlabs", "mailgun", "conversations", "generate-summary"}

\* NextResponse.json(body, {status}): the status and the fields of the body.
Json(status, message, success, text, recipient) ==
    [kind |-> "respond",
     json |-> [status |-> status, success |-> success, error |-> message,
               text |-> text, recipient |-> recipient]]

ErrorJson(status, message) == Json(status, message, FALSE, "", "")

\* fetch(...): the callee, the method, and what the request carries.
Fetch(callee, method, id, prompt, transcript, recipient, subject, local) ==
    [kind |-> "call",
     local |-> [text |-> local],
     call |-> [id |-> id, recipient |-> recipient,
               transcript |-> transcript, method |-> method,
               prompt |-> prompt, subject |-> subject, to |-> callee]]

toUpperCase(role) ==
    CASE role = "user" -> "USER"
      [] role = "agent" -> "AGENT"

\* transcript.map(turn => `${turn.role.toUpperCase()}: ${turn.message}`)
formattedTranscript(turns) ==
    [i \in 1..Len(turns) |->
        [message |-> turns[i].message,
         speaker |-> toUpperCase(turns[i].role)]]

Prompt(kind, lines, text) == [text |-> text, kind |-> kind, lines |-> lines]

NoPrompt == Prompt("none", <<>>, "")

\* `${value}` of a field that may be absent.
templateText(v) == IF v.defined THEN v.s ELSE "undefined"

\* if (!apiKey): every variable the handler insists on is set.
assumedConfigured(env, needed) == TRUE

configured(env, needed) == needed \subseteq env

\* response.ok, read after a fetch that did not reject.
anyStatus(reply) == reply.status # "throw"

upstreamOk(reply) == reply.status = "ok"

\* a || b on strings: b when a is undefined or empty.
noFallback(text, fallback) == text

orElse(text, fallback) == IF text # "" THEN text ELSE fallback

\* data.candidates?.[0]?.content?.parts?.[0]?.text, undefined read as "".
candidateText(reply) == IF reply.cands > 0 THEN reply.text ELSE ""

\* recipient || emailRecipient of the agenda email.
defaultOnly(requested, default) == default

recipientOr(requested, default) ==
    orElse(IF requested.defined THEN requested.s ELSE "", default)

\* The variables a handler returns 500 without, the message of that
\* response, the message of its catch block, the message of its 400 and
\* the text it falls back to.
RequiredEnv(endpoint) ==
    CASE endpoint \in GeminiEndpoints -> {"GEMINI_API_KEY"}
      [] endpoint \in ConversationEndpoints -> {"ELEVENLABS_API_KEY"}
      [] endpoint \in EmailEndpoints ->
           {"GEMINI_API_KEY", "MAILGUN_API_KEY", "EMAIL_RECIPIENTS"}

ConfigMessage(endpoint) ==
    CASE endpoint \in GeminiEndpoints -> "Gemini API key not configured"
      [] endpoint \in ConversationEndpoints ->
           "ElevenLabs API key not configured"
      [] endpoint \in EmailEndpoints ->
           "Required API keys or email configuration not found"

FailureMessage(endpoint) ==
    CASE endpoint = "analyze" -> "Failed to analyze transcript"
      [] endpoint \in {"generate-summary", "generate-summary-sections"} ->
           "Failed to generate summary"
      [] endpoint = "gemini-template" -> "Failed to generate template"
      [] endpoint = "conversations GET" ->
           "Failed to fetch conversation details"
      [] endpoint = "conversations DELETE" -> "Failed to delete conversation"
      [] endpoint = "space-fact-email" -> "Failed to send space fact email"
      [] endpoint = "agenda-email" -> "Failed to send meeting agenda email"

RequiredMessage(endpoint) ==
    CASE endpoint = "analyze" -> "Transcript and question are required"
      [] endpoint \in {"generate-summary", "generate-summary-sections"} ->
           "Transcript is required"
      [] endpoint = "gemini-template" -> "Discussion content is required"

Fallback(endpoint) ==
    CASE endpoint = "analyze" -> "No answer generated"
      [] endpoint \in {"generate-summary", "generate-summary-sections"} ->
           "No summary generated"
      [] endpoint = "space-fact-email" ->
           "The universe is vast and full of wonders!"
      [] endpoint = "agenda-email" ->
           "Unable to generate meeting agenda at this time."

\* catch (error): the 500 of the handler.
caught(endpoint) == ErrorJson(500, FailureMessage(endpoint))

GeminiFetch(prompt) ==
    Fetch("gemini", "POST", "", prompt, NoArray, "", "", "")

\* POST /api/analyze up to its fetch.
analyze(env, body) ==
    IF ~configured(env, RequiredEnv("analyze"))
    THEN ErrorJson(500, ConfigMessage("analyze"))
    ELSE IF ~body.parses
    THEN caught("analyze")
    ELSE IF ~truthyArray(body.transcript) \/ ~truthyString(body.question)
    THEN ErrorJson(400, RequiredMessage("analyze"))
    ELSE GeminiFetch(Prompt("answer",
                            formattedTranscript(body.transcript.turns),
                            body.question.s))

\* POST /api/generate-summary up to its fetch, for either prompt.
generateSummary(endpoint, env, body) ==
    IF ~configured(env, RequiredEnv(endpoint))
    THEN ErrorJson(500, ConfigMessage(endpoint))
    ELSE IF ~body.parses
    THEN caught(endpoint)
    ELSE IF ~truthyArray(body.transcript)
    THEN ErrorJson(400, RequiredMessage(endpoint))
    ELSE GeminiFetch(Prompt(IF endpoint = "generate-summary"
                            THEN "three takeaways"
                            ELSE "issue, goal, next steps",
                            formattedTranscript(body.transcript.turns), ""))

\* POST /api/gemini-template up to its fetch: the body is read and checked
\* before the key is.
geminiTemplate(env, body) ==
    IF ~body.parses
    THEN caught("gemini-template")
    ELSE IF ~truthyString(body.discussionContent)
    THEN ErrorJson(400, RequiredMessage("gemini-template"))
    ELSE IF ~configured(env, RequiredEnv("gemini-template"))
    THEN ErrorJson(500, ConfigMessage("gemini-template"))
    ELSE GeminiFetch(Prompt("template", <<>>, body.discussionContent.s))

\* GET and DELETE /api/conversations/[id] up to their fetch.
conversation(endpoint, env, id) ==
    IF ~configured(env, RequiredEnv(endpoint))
    THEN ErrorJson(500, ConfigMessage(endpoint))
    ELSE Fetch("elevenlabs",
               IF endpoint = "conversations GET" THEN "GET" ELSE "DELETE",
               id, NoPrompt, NoArray, "", "", "")

\* POST /api/space-fact-email of the space fact up to its first fetch: the
\* conversation id is read and not looked at.
spaceFactEmail(env, body) ==
    IF ~configured(env, RequiredEnv("space-fact-email"))
    THEN ErrorJson(500, ConfigMessage("space-fact-email"))
    ELSE IF ~body.parses
    THEN caught("space-fact-email")
    ELSE GeminiFetch(Prompt("space fact", <<>>, ""))

\* POST /api/space-fact-email of the meeting agenda up to its first fetch,
\* of the details of the conversation at its own application.
agendaEmail(env, body) ==
    IF ~configured(env, RequiredEnv("agenda-email"))
    THEN ErrorJson(500, ConfigMessage("agenda-email"))
    ELSE IF ~body.parses
    THEN caught("agenda-email")
    ELSE Fetch("conversations", "GET", templateText(body.conversationId),
               NoPrompt, NoArray, "", "", "")

\* The handler of a request after the reply to the fetch it awaits.
afterReply(req, callee, local, reply) ==
    LET e == req.endpoint IN
    IF reply.status = "throw" \/ ~upstreamOk(reply)
    THEN caught(e)
    ELSE CASE e \in {"analyze", "generate-summary",
                     "generate-summary-sections"} ->
                Json(200, "", FALSE,
                     orElse(candidateText(reply), Fallback(e)), "")
           [] e = "gemini-template" ->
                \* candidates[0] of no candidates throws a TypeError
                IF reply.cands = 0
                THEN caught(e)
                ELSE Json(200, "", FALSE, reply.text, "")
           [] e = "conversations GET" ->
                Json(200, "", FALSE, reply.text, "")
           [] e = "conversations DELETE" ->
                Json(200, "", TRUE, "", "")
           [] e = "space-fact-email" ->
                IF callee = "gemini"
                THEN LET spaceFact ==
                             orElse(candidateText(reply), Fallback(e))
                     IN Fetch("mailgun", "POST",
                              templateText(req.body.conversationId),
                              Prompt("space fact mail", <<>>, spaceFact),
                              NoArray, DefaultRecipient,
                              IF "EMAIL_SUBJECT" \in req.env
                              THEN ConfiguredSubject
                              ELSE DefaultSubject,
                              spaceFact)
                ELSE Json(200, "", TRUE, local.text, DefaultRecipient)
           [] e = "agenda-email" ->
                CASE callee = "conversations" ->
                       Fetch("generate-summary", "POST", "", NoPrompt,
                             reply.transcript, "", "", "")
                  [] callee = "generate-summary" ->
                       LET summary == orElse(reply.text, Fallback(e))
                       IN Fetch("mailgun", "POST",
                                templateText(req.body.recipient),
                                Prompt("agenda mail", <<>>, summary),
                                NoArray,
                                recipientOr(req.body.recipient,
                                            DefaultRecipient),
                                "Agenda for Our Upcoming Meeting",
                                summary)
                  [] callee = "mailgun" ->
                       Json(200, "", TRUE, local.text,
                            recipientOr(req.body.recipient,
                                        DefaultRecipient))

\* A segment of a handler ends in a response or in a fetch it awaits.
proceed(step, outbound, local) ==
    IF step.kind = "respond"
    THEN /\ srvResponses' = Append(srvResponses, step.json)
         /\ srvPc' = "done"
         /\ srvOutbound' = outbound
         /\ srvLocal' = local
    ELSE /\ srvOutbound' = Append(outbound, step.call)
         /\ srvPc' = step.call.to
         /\ srvLocal' = step.local
         /\ UNCHANGED srvResponses

\* A request arrives at a route: the invocation runs to its first fetch or
\* to its response.
invoke(endpoint, env, body, step) ==
    /\ srvPc \in {"idle", "done"}
    /\ srvReq' = [body |-> body, endpoint |-> endpoint, env |-> env]
    /\ srvReplies' = <<>>
    /\ srvCallerGone' = FALSE
    /\ IF step.kind = "respond"
       THEN /\ srvResponses' = <<step.json>>
            /\ srvPc' = "done"
            /\ srvOutbound' = <<>>
            /\ srvLocal' = NoLocal
       ELSE /\ srvResponses' = <<>>
            /\ srvOutbound' = <<step.call>>
            /\ srvPc' = step.call.to
            /\ srvLocal' = step.local
    /\ UNCHANGED <<listVars, lastResponse, qaVars, summaryVars, emailVars,
                   discussionVars>>

analyzePOST(env, body) == invoke("analyze", env, body, analyze(env, body))

generateSummaryPOST(endpoint, env, body) ==
    invoke(endpoint, env, body, generateSummary(endpoint, env, body))

geminiTemplatePOST(env, body) ==
    invoke("gemini-template", env, body, geminiTemplate(env, body))

conversationGET(env) ==
    invoke("conversations GET", env, EmptyBody,
           conversation("conversations GET", env, "c1"))

\* The request of DELETE /api/conversations/[id]: no body is read, the id is
\* the route parameter.
Params(id) == [EmptyBody EXCEPT !.conversationId = Str(id)]

conversationDELETE(env, id) ==
    invoke("conversations DELETE", env, Params(id),
           conversation("conversations DELETE", env, id))

spaceFactEmailPOST(env, body) ==
    invoke("space-fact-email", env, body, spaceFactEmail(env, body))

agendaEmailPOST(env, body) ==
    invoke("agenda-email", env, body, agendaEmail(env, body))

\* The fetch the invocation awaits settles and the handler goes on.
upstreamReply(reply) ==
    /\ srvPc \in Callees
    /\ reply \in RepliesOf(srvPc)
    /\ srvReplies' = Append(srvReplies, reply)
    /\ proceed(afterReply(srvReq, srvPc, srvLocal, reply),
               srvOutbound, srvLocal)
    /\ UNCHANGED <<srvReq, srvCallerGone>>
    /\ UNCHANGED <<listVars, lastResponse, qaVars, summaryVars, emailVars,
                   discussionVars>>

NextServer ==
    \/ \E env \in Envs, body \in BodiesOf("analyze") : analyzePOST(env, body)
    \/ \E e \in {"generate-summary", "generate-summary-sections"} :
          \E env \in Envs, body \in BodiesOf(e) :
             generateSummaryPOST(e, env, body)
    \/ \E env \in Envs, body \in BodiesOf("gemini-template") :
          geminiTemplatePOST(env, body)
    \/ \E env \in Envs : conversationGET(env)
    \/ \E env \in Envs : conversationDELETE(env, "c1")
    \/ \E env \in Envs, body \in BodiesOf("space-fact-email") :
          spaceFactEmailPOST(env, body)
    \/ \E env \in Envs, body \in BodiesOf("agenda-email") :
          agendaEmailPOST(env, body)
    \/ \E callee \in Callees : \E reply \in RepliesOf(callee) :
          upstreamReply(reply)

SpecServer == Init /\ [][NextServer]_vars

\* ------------------------------------- a delete, from the row to the provider
\* The dashboard's delete requests are answered by the DELETE route, which
\* asks the provider.  The route holds no state between invocations, so the
\* requests in flight are served one after the other, in any order.

\* The delete request of a row that the route is serving or has answered.
AtRoute(id) ==
    /\ srvPc # "idle"
    /\ srvReq.endpoint = "conversations DELETE"
    /\ srvReq.body.conversationId = Str(id)

\* Mutant of statusOutcome: every status counts as a success.
okOnAnyStatus(status) == "ok"

\* response.ok of the response the route returned.
statusOutcome(status) == IF status \in 200..299 THEN "ok" ELSE "notok"

\* A delete request in flight reaches the route.
deleteArrives(env, id) ==
    /\ deleteReqs[id] > 0
    /\ srvPc = "idle"
    /\ conversationDELETE(env, id)

\* The route's response reaches deleteConversation, whose fetch is still
\* waiting for it.
deleteSettles(id) ==
    /\ AtRoute(id)
    /\ srvPc = "done"
    /\ ~srvCallerGone
    /\ removeOnSuccess(id, statusOutcome(srvResponses[1].status))
    /\ srvPc' = "idle"
    /\ UNCHANGED <<srvReq, srvLocal, srvOutbound, srvResponses, srvReplies,
                   srvCallerGone>>
    /\ UNCHANGED <<qaVars, summaryVars, emailVars, discussionVars>>

\* The fetch of a delete request rejects and the catch of deleteConversation
\* logs it: the request the route is serving, whose invocation goes on with
\* no caller to answer, or one that has not reached the route.
deleteRejects(id) ==
    \/ /\ AtRoute(id)
       /\ ~srvCallerGone
       /\ srvCallerGone' = TRUE
       /\ removeOnSuccess(id, "throw")
       /\ UNCHANGED <<srvReq, srvPc, srvLocal, srvOutbound, srvResponses,
                      srvReplies>>
       /\ UNCHANGED <<qaVars, summaryVars, emailVars, discussionVars>>
    \/ /\ deleteReqs[id] > (IF AtRoute(id) /\ ~srvCallerGone THEN 1 ELSE 0)
       /\ deleteResponse(id, "throw")

\* The route has answered a delete whose fetch has rejected: the response
\* goes to nobody, whatever other requests of the row are in flight.
responseUndelivered(id) ==
    /\ AtRoute(id)
    /\ srvPc = "done"
    /\ srvCallerGone
    /\ srvPc' = "idle"
    /\ srvCallerGone' = FALSE
    /\ lastResponse' = NoResponse
    /\ UNCHANGED <<srvReq, srvLocal, srvOutbound, srvResponses, srvReplies>>
    /\ UNCHANGED <<listVars, qaVars, summaryVars, emailVars, discussionVars>>

NextDelete ==
    \/ loadResponse(Bodies)
    \/ applyFiltersEffect
    \/ \E id \in Ids : deleteConversation(id)
    \/ \E env \in Envs, id \in Ids : deleteArrives(env, id)
    \/ \E callee \in Callees : \E reply \in RepliesOf(callee) :
          upstreamReply(reply)
    \/ \E id \in Ids : deleteSettles(id)
    \/ \E id \in Ids : deleteRejects(id)
    \/ \E id \in Ids : responseUndelivered(id)

SpecDelete == Init /\ [][NextDelete]_vars

\* ------------------------------------------------------------ properties
\* Helpers of the properties, stated without the operators of the model.
Latest(convs) == IF convs = <<>> THEN <<>> ELSE <<Head(convs)>>

Elems(seq) == { seq[i] : i \in 1..Len(seq) }

SortedDesc(convs) ==
    \A i, j \in 1..Len(convs) :
        i < j => convs[i].start_time_unix_secs >= convs[j].start_time_unix_secs

IsPermutation(a, b) ==
    /\ Len(a) = Len(b)
    /\ \E f \in [1..Len(a) -> 1..Len(b)] :
          /\ \A i, j \in 1..Len(a) : i # j => f[i] # f[j]
          /\ \A i \in 1..Len(a) : a[i] = b[f[i]]

\* new is old with the element at one position taken out, the rest in place.
RemovesOne(new, old, id) ==
    \E k \in 1..Len(old) :
        /\ old[k].conversation_id = id
        /\ new = SubSeq(old, 1, k - 1) \o SubSeq(old, k + 1, Len(old))

\* start >= now - days * 86400 seconds, now = c.secs + c.ms / 1000.
InWindow(start, days, c) ==
    LET d == start + days * 86400 - c.secs
    IN  d >= 1 \/ (d = 0 /\ c.ms = 0)

DaysOf(df) == CASE df = "today" -> 1 [] df = "week" -> 7 [] df = "month" -> 30

\* conv satisfies every active criterion of cr but the date range.
SatisfiesOthers(conv, cr) ==
    /\ cr.searchTerm # <<>> =>
         \/ /\ conv.call_summary_title # <<>>
            /\ includes(toLowerCase(conv.call_summary_title[1]),
                        toLowerCase(cr.searchTerm))
         \/ includes(toLowerCase(conv.agent_name), toLowerCase(cr.searchTerm))
    /\ cr.statusFilter # "all" => conv.status = cr.statusFilter
    /\ cr.agentFilter # ALL => conv.agent_name = cr.agentFilter
    /\ cr.successFilter # "all" => conv.call_successful = cr.successFilter

SatisfiesEvery(conv, cr, c) ==
    /\ SatisfiesOthers(conv, cr)
    /\ cr.dateFilter # "all" =>
         InWindow(conv.start_time_unix_secs, DaysOf(cr.dateFilter), c)

\* The narrowing steps of applyFilters composed in the opposite order.
ReverseOrder(convs, cr, c) ==
    FilterSearch(
      FilterStatus(
        FilterAgent(
          FilterSuccess(
            FilterDate(convs, cr.dateFilter, c),
            cr.successFilter),
          cr.agentFilter),
        cr.statusFilter),
      cr.searchTerm)

NoCriteria(cr) ==
    /\ cr.searchTerm = <<>>
    /\ cr.statusFilter = "all"
    /\ cr.agentFilter = ALL
    /\ cr.successFilter = "all"
    /\ cr.dateFilter = "all"

\* C1 (as stated): in every reachable state the displayed list equals the
\* filter of the conversation list under the current criteria, evaluated now.
C1_DisplayedIsFilterNow ==
    filteredConversations = applyFilters(conversations, criteria, clock)

\* The load has just been answered in view mode latest: the render its
\* continuation commits shows every conversation of the response, where the
\* filter of the list under the current criteria is its first row alone.
C1_Witness ==
    /\ Ready
    /\ lastResponse.op = "list"
    /\ effectPending
    /\ viewMode = "last"
    /\ Len(filteredConversations) = MaxConvs
    /\ filteredConversations = conversations
    /\ applyFilters(conversations, criteria, clock) = Latest(conversations)

\* C2: in view mode latest the displayed result is the first element of
\* the conversation list, or empty when the list is empty, whatever the
\* search text, status, agent, success and date-range criteria are.
C2_LatestIgnoresCriteria ==
    viewMode = "last" =>
        /\ applyFilters(conversations, criteria, clock) = Latest(conversations)
        /\ ~effectPending => filteredConversations = Latest(conversations)

C2_Witness ==
    /\ viewMode = "last"
    /\ ~effectPending
    /\ Len(conversations) >= 2
    /\ filteredConversations = <<conversations[1]>>
    /\ searchTerm # <<>>
    /\ statusFilter # "all"
    /\ agentFilter # ALL
    /\ successFilter # "all"
    /\ dateFilter # "all"
    /\ ~SatisfiesEvery(conversations[1], criteria, clock)

\* C3: in latest mode the filter returns at most one element, and when it
\* returns one it is an element of the conversation list whose start time
\* is the maximum of the list.
C3_LatestIsNewest ==
    viewMode = "last" =>
        LET result == IF effectPending
                      THEN applyFilters(conversations, criteria, clock)
                      ELSE filteredConversations
        IN  /\ Len(result) <= 1
            /\ Len(result) = 1 =>
                 /\ result[1] \in Elems(conversations)
                 /\ \A conv \in Elems(conversations) :
                       conv.start_time_unix_secs
                           <= result[1].start_time_unix_secs

\* The filter has run in latest mode over a list of conversations that
\* started at different times.
C3_Witness ==
    /\ viewMode = "last"
    /\ ~effectPending
    /\ Len(conversations) >= 2
    /\ conversations[Len(conversations)].start_time_unix_secs
           < conversations[1].start_time_unix_secs
    /\ Len(filteredConversations) = 1

\* C4: in view mode all the result is the order-preserving subsequence of
\* the conversation list whose elements satisfy every active criterion; it
\* is the same when the criteria are applied in the opposite order; and with
\* every criterion all/empty it is the conversation list itself.
C4_AllModeIsConjunction ==
    (viewMode = "all" /\ ~effectPending) =>
        LET Keep(conv) == SatisfiesEvery(conv, criteria, appliedAt)
        IN  /\ filteredConversations = SelectSeq(conversations, Keep)
            /\ filteredConversations
                  = ReverseOrder(conversations, criteria, appliedAt)
            /\ NoCriteria(criteria) => filteredConversations = conversations

C4_Witness ==
    /\ viewMode = "all"
    /\ ~effectPending
    /\ searchTerm # <<>>
    /\ successFilter # "all"
    /\ dateFilter # "all"
    /\ Len(conversations) = 3
    /\ Len(filteredConversations) = 1
    /\ filteredConversations[1] = conversations[2]

\* A conversation that started at `start`, for the boundary cases.
StartedAt(start) == Conv("c1", AgentAl, <<>>, "done", "success", start)

\* C5: under a date range a conversation is kept exactly when its start time
\* is at or after now minus the window, the windows being 1, 7 and 30 days
\* of 86400 seconds: at a whole-second now, start = now - window is kept and
\* start = now - window - 1 is dropped.
C5_DateWindowInclusive ==
    /\ (viewMode = "all" /\ dateFilter # "all") =>
          \A conv \in Elems(conversations) :
              SatisfiesOthers(conv, criteria) =>
                  (conv \in Elems(filteredConversations)
                     <=> InWindow(conv.start_time_unix_secs,
                                  DaysOf(dateFilter), appliedAt))
    /\ \A df \in {"today", "week", "month"} :
          LET edge == StartedAt(appliedAt.secs - DaysOf(df) * 86400)
              before == StartedAt(appliedAt.secs - DaysOf(df) * 86400 - 1)
              cr == Criteria("all", <<>>, "all", ALL, "all", df)
          IN  applyFilters(<<edge, before>>, cr, appliedAt)
                = IF appliedAt.ms = 0 THEN <<edge>> ELSE <<>>

C5_Witness ==
    /\ viewMode = "all"
    /\ dateFilter = "today"
    /\ appliedAt.ms = 0
    /\ \E kept \in Elems(filteredConversations) :
          kept.start_time_unix_secs = appliedAt.secs - 86400
    /\ \E dropped \in Elems(conversations) :
          /\ dropped.start_time_unix_secs = appliedAt.secs - 86401
          /\ dropped \notin Elems(filteredConversations)
          /\ SatisfiesOthers(dropped, criteria)

\* The id whose DELETE response the step handles.
HandlesDeleteOf(id) == deleteReqs' = [deleteReqs EXCEPT ![id] = @ - 1]

\* C6: a successful delete of id X takes exactly the element with that id
\* out of the conversation list and keeps the others in their order; when
\* no element has that id the list is unchanged.
C6_DeleteRemovesExactlyOne ==
    [][ \A id \in Ids :
          ( /\ lastResponse'.op = "delete"
            /\ lastResponse'.outcome = "ok"
            /\ HandlesDeleteOf(id) ) =>
              IF id \in IdsOf(conversations)
              THEN /\ RemovesOne(conversations', conversations, id)
                   /\ id \notin IdsOf(conversations')
                   /\ Len(conversations') = Len(conversations) - 1
              ELSE conversations' = conversations ]_vars

\* A successful delete left two of three conversations.
C6_Witness ==
    /\ lastResponse.op = "delete"
    /\ lastResponse.outcome = "ok"
    /\ Len(conversations) = 2
    /\ viewMode = "all"
    /\ filteredConversations = conversations
    /\ InFlight(deleteReqs) = 0

\* C7: a delete response that is not a success (a non-success status or a
\* network error) leaves the conversation list and the displayed list as
\* they were, and puts no new delete request in flight.
C7_FailedDeleteChangesNothing ==
    [][ ( /\ lastResponse'.op = "delete"
          /\ lastResponse'.outcome # "ok" ) =>
            /\ conversations' = conversations
            /\ filteredConversations' = filteredConversations
            /\ \E id \in Ids : HandlesDeleteOf(id) ]_vars

C7_Witness ==
    /\ lastResponse.op = "delete"
    /\ lastResponse.outcome = "notok"
    /\ InFlight(deleteReqs) = 0
    /\ Len(conversations) = MaxConvs
    /\ viewMode = "all"
    /\ filteredConversations = conversations

\* C8: a load that fails (non-success status, network error, a body without
\* a conversation array) ends in the error state with both lists empty; a
\* load that succeeds stores the conversations of the response sorted by
\* start time, newest first, and sets no error.
C8_LoadFailsOpenly ==
    /\ error # NULL =>
         /\ ~loading
         /\ conversations = <<>>
         /\ filteredConversations = <<>>
    /\ lastResponse.op = "list" =>
         /\ ~loading
         /\ lastResponse.outcome # "ok" => error # NULL
         /\ lastResponse.outcome = "ok" =>
              /\ error = NULL
              /\ IsPermutation(conversations, lastResponse.body)
              /\ SortedDesc(conversations)
    /\ SortedDesc(conversations)

C8_Witness ==
    /\ lastResponse.op = "list"
    /\ lastResponse.outcome = "notok"
    /\ error = "Failed to fetch conversations"
    /\ ~loading
    /\ conversations = <<>>

\* C9: for every conversation id at most one question-answering request is
\* in flight, and one is in flight exactly while loadingAnalysis[id] is true,
\* the state in which neither the Send button nor the Enter key submits.
C9_OneQuestionInFlight ==
    \A id \in Ids :
        /\ Len(qaReqs[id]) <= 1
        /\ loadingAnalysis[id] <=> qaReqs[id] # <<>>
        /\ loadingAnalysis[id] => (SendDisabled(id) /\ ~EnterSubmits(id))

\* Two rows each with a question in flight, one of them with its panel open
\* and a non-blank question in its input.
C9_Witness ==
    \E id, other \in Ids :
        /\ id # other
        /\ PanelOpen(id)
        /\ Len(qaReqs[id]) = 1
        /\ qaReqs[id][1].stage = "analyze"
        /\ trim(questions[id]) # <<>>
        /\ loadingAnalysis[id]
        /\ Len(qaReqs[other]) = 1

CachedOrInFlight(id) == geminiSummaries[id] # "" \/ loadingSummary[id]

\* C10: a call of generateGeminiSummary for an id whose summary is cached or
\* whose loadingSummary flag is set issues no request and changes no state,
\* no step issues a summary request of the row for such an id, and a summary
\* that is cached for an id is still cached after every step.
C10_SummaryCallIsNoOpAndCacheStays ==
    [][\A id \in Ids :
         /\ (CachedOrInFlight(id) /\ generateGeminiSummary(id))
               => UNCHANGED <<listVars, serverVars, discussionVars, panelVars>>
         /\ CachedOrInFlight(id)
               => Len(summaryReqs'[id]) <= Len(summaryReqs[id])
         /\ geminiSummaries[id] # "" => geminiSummaries'[id] # ""]_vars

\* Every row on display is one for which the call returns at once: one
\* has a cached summary that the email preview wrote, the other's summary
\* is in flight.
C10_Witness ==
    \E id, other \in Ids :
        /\ id # other
        /\ IdsOf(conversations) = {id, other}
        /\ lastResponse = NoResponse
        /\ Displayed(id)
        /\ Displayed(other)
        /\ geminiSummaries[id] # ""
        /\ emailPreview.kind = "agenda"
        /\ emailPreview.summary = geminiSummaries[id]
        /\ loadingSummary[other]
        /\ Len(summaryReqs[other]) = 1

\* C11: whenever the email modal goes from closed to open, the recipient
\* field is empty and no preview is present.
C11_ModalOpensEmpty ==
    [][(emailModal = NULL /\ emailModal' # NULL)
          => (emailRecipient' = "" /\ emailPreview' = NoPreview)]_vars

\* The modal is open for one conversation with an empty recipient field and
\* shows a preview that a call made in an earlier opening delivered.
C11_Witness ==
    /\ ModalOpen
    /\ emailRecipient = ""
    /\ emailPreview # NoPreview
    /\ previewFrom = "earlier opening"

\* C12: a send request is issued only in a state where recipient and preview
\* are both non-empty, and the preview present then was produced in the
\* opening of the modal the request is sent from.
C12_SendOnlyAfterPreviewHere ==
    [][Len(sendReqs') > Len(sendReqs)
          => /\ emailModal # NULL
             /\ emailRecipient # ""
             /\ emailPreview # NoPreview
             /\ previewFrom = "this opening"]_vars

\* A send request is in flight for a conversation while the modal shows a
\* preview left by an earlier opening.
C12_Witness ==
    /\ ModalOpen
    /\ Len(sendReqs) = 1
    /\ sendReqs[1].id = emailModal
    /\ emailPreview # NoPreview
    /\ previewFrom = "earlier opening"

\* C13: issuing a send request resets nothing; a failed send response leaves
\* the modal, the recipient, the preview and every summary as they were; a
\* successful one closes the modal and clears both fields; and the modal
\* closes on no other response.
C13_ModalClosesOnSendSuccessOnly ==
    [][/\ Len(sendReqs') > Len(sendReqs)
          => UNCHANGED <<emailModal, emailRecipient, emailPreview>>
       /\ (lastResponse'.op = "send" /\ lastResponse'.outcome # "ok")
          => UNCHANGED <<emailModal, emailRecipient, emailPreview,
                         geminiSummaries>>
       /\ (lastResponse'.op = "send" /\ lastResponse'.outcome = "ok")
          => /\ emailModal' = NULL
             /\ emailRecipient' = ""
             /\ emailPreview' = NoPreview
             /\ UNCHANGED geminiSummaries
       /\ (emailModal # NULL /\ emailModal' = NULL)
          => \/ lastResponse'.op = "send" /\ lastResponse'.outcome = "ok"
             \/ lastResponse' = NoResponse]_vars

\* A send has just failed: the modal is still open with its recipient, its
\* agenda preview and the cached summary of its conversation.
C13_Witness ==
    /\ lastResponse.op = "send"
    /\ lastResponse.outcome # "ok"
    /\ ModalOpen
    /\ emailRecipient # ""
    /\ emailPreview.kind = "agenda"
    /\ geminiSummaries[emailModal] = emailPreview.summary

\* C14: a preview call is a request only when no summary is cached for the
\* conversation of the modal; with a cached summary the preview is the
\* template filled with it and nothing else changes; a call without one
\* fetches the transcript first, then the summary, and its success stores the
\* summary under the call's conversation id alone and in the preview.
C14_PreviewReusesOrCachesSummary ==
    [][/\ Len(previewReqs') > Len(previewReqs)
          => /\ emailModal # NULL
             /\ geminiSummaries[emailModal] = ""
             /\ previewReqs'[Len(previewReqs')].stage = "details"
             /\ previewReqs'[Len(previewReqs')].id = emailModal
             /\ UNCHANGED <<geminiSummaries, emailPreview>>
       /\ (/\ Len(previewReqs') = Len(previewReqs)
           /\ emailPreview' # emailPreview
           /\ emailPreview' # NoPreview)
          => /\ emailModal # NULL
             /\ geminiSummaries[emailModal] # ""
             /\ emailPreview' =
                  previewText(emailRecipient, geminiSummaries[emailModal], clock)
             /\ UNCHANGED geminiSummaries
       /\ \A k \in 1..Len(previewReqs) :
            previewReqs' = RemoveAt(previewReqs, k)
            => \/ /\ emailPreview'.kind = "fallback"
                  /\ UNCHANGED geminiSummaries
               \/ /\ previewReqs[k].stage = "generate"
                  /\ emailPreview'.kind = "agenda"
                  /\ emailPreview'.summary # ""
                  /\ geminiSummaries' =
                       [geminiSummaries EXCEPT ![previewReqs[k].id] =
                          emailPreview'.summary]]_vars

\* A preview call without a cached summary has just succeeded: the summary
\* is cached under the modal's conversation and shown in the preview, while
\* the other row has none.
C14_Witness ==
    \E other \in Ids :
        /\ lastResponse.op = "preview"
        /\ ModalOpen
        /\ other # emailModal
        /\ previewFrom = "this opening"
        /\ emailPreview.kind = "agenda"
        /\ geminiSummaries[emailModal] = emailPreview.summary
        /\ geminiSummaries[other] = ""
        /\ Displayed(other)

\* The keyed entries of one conversation, with its requests in flight.
RowEntries(id) ==
    <<questions[id], answers[id], loadingAnalysis[id], qaReqs[id],
      loadingSummary[id], geminiSummaries[id], summaryReqs[id]>>

\* The step handles a failed operation on conversation x.
FailsOn(x) ==
    \/ /\ Len(qaReqs'[x]) < Len(qaReqs[x])
       /\ answers'[x] = ErrorAnswer
    \/ /\ Len(summaryReqs'[x]) < Len(summaryReqs[x])
       /\ geminiSummaries'[x] = geminiSummaries[x]
    \/ \E k \in 1..Len(previewReqs) :
          /\ previewReqs' = RemoveAt(previewReqs, k)
          /\ previewReqs[k].id = x
          /\ emailPreview'.kind = "fallback"
    \/ \E k \in 1..Len(sendReqs) :
          /\ sendReqs' = RemoveAt(sendReqs, k)
          /\ sendReqs[k].id = x
          /\ lastResponse'.op = "send"
          /\ lastResponse'.outcome # "ok"

\* C15 (as stated): a step that handles a failed Q&A, summary, preview or
\* send operation on conversation x is shown on x only: it changes no keyed
\* entry of any other conversation, neither the conversation list nor the
\* displayed list, and nothing of what the email modal shows unless the
\* modal is open for x.
C15_FailureStaysOnItsRow ==
    [][\A x \in Ids :
         FailsOn(x)
         => /\ \A other \in Ids \ {x} : RowEntries(other)' = RowEntries(other)
            /\ UNCHANGED <<conversations, filteredConversations>>
            /\ emailModal # x
                  => UNCHANGED <<emailPreview, loadingEmailPreview>>]_vars

\* The preview of one conversation has just failed after its modal was
\* closed, and the modal that is open for another conversation shows the
\* fallback text of that failure.
C15_Witness ==
    \E x \in Ids :
        /\ ModalOpen
        /\ emailModal # x
        /\ Displayed(x)
        /\ lastResponse.op = "preview"
        /\ emailPreview # NoPreview
        /\ emailPreview.kind = "fallback"
        /\ previewFrom = "earlier opening"
        /\ previewReqs = <<>>
        /\ ~loadingEmailPreview

\* ------------------------------------------------- server-side properties
\* Helpers of the server properties.
Invoked == srvPc # "idle"

Responded == srvPc = "done" /\ Len(srvResponses) = 1

RespondedWith(status, message) ==
    /\ Responded
    /\ srvResponses[1].status = status
    /\ srvResponses[1].error = message

LacksEnv == ~(RequiredEnv(srvReq.endpoint) \subseteq srvReq.env)

\* C16 as stated: every endpoint, whatever the body, answers a request made
\* without a required environment variable with 500 and the message that
\* names the missing configuration, and makes no outbound call.
C16_MissingEnvIsAlways500 ==
    (Invoked /\ LacksEnv)
        => /\ srvOutbound = <<>>
           /\ RespondedWith(500, ConfigMessage(srvReq.endpoint))

\* C16, amended: without a required environment variable no endpoint makes
\* an outbound call, and each answers 500 with the message that names the
\* missing configuration, except the template endpoint, which reads and
\* checks the body first: a body that is not JSON gets its generic 500 and
\* a body without discussion content its 400.
C16_MissingEnvNeverCallsOut ==
    (Invoked /\ LacksEnv)
        => /\ srvOutbound = <<>>
           /\ LET e == srvReq.endpoint
                  body == srvReq.body
              IN IF e = "gemini-template" /\ ~body.parses
                 THEN RespondedWith(500, FailureMessage(e))
                 ELSE IF e = "gemini-template"
                         /\ ~truthyString(body.discussionContent)
                 THEN RespondedWith(400, RequiredMessage(e))
                 ELSE RespondedWith(500, ConfigMessage(e))

C16_Witness ==
    /\ srvReq.endpoint = "gemini-template"
    /\ "GEMINI_API_KEY" \notin srvReq.env
    /\ truthyString(srvReq.body.discussionContent)
    /\ srvOutbound = <<>>
    /\ RespondedWith(500, "Gemini API key not configured")

\* The field a POST endpoint is said to require is missing from the body.
LacksField(endpoint, body) ==
    CASE endpoint = "analyze" ->
           ~truthyArray(body.transcript) \/ ~truthyString(body.question)
      [] endpoint \in {"generate-summary", "generate-summary-sections"} ->
           ~truthyArray(body.transcript)
      [] endpoint = "gemini-template" ->
           ~truthyString(body.discussionContent)
      [] endpoint \in EmailEndpoints -> ~truthyString(body.conversationId)
      [] OTHER -> FALSE

\* C17: every POST endpoint, its configuration in place, answers a JSON
\* body that lacks a required field (transcript and question, transcript,
\* discussionContent, conversationId) with 400 and the message naming the
\* field, and makes no outbound call.
C17_MissingFieldIs400 ==
    (/\ Invoked
     /\ ~LacksEnv
     /\ srvReq.body.parses
     /\ LacksField(srvReq.endpoint, srvReq.body))
        => /\ srvOutbound = <<>>
           /\ Responded
           /\ srvResponses[1].status = 400
           /\ srvReq.endpoint \notin EmailEndpoints
                => srvResponses[1].error = RequiredMessage(srvReq.endpoint)

\* A request without a conversation id for which the space fact was mailed
\* and reported as a success.
C17_Witness ==
    /\ srvReq.endpoint = "space-fact-email"
    /\ srvReq.body.parses
    /\ ~srvReq.body.conversationId.defined
    /\ Len(srvOutbound) = 2
    /\ srvOutbound[2].to = "mailgun"
    /\ srvOutbound[2].id = "undefined"
    /\ Responded
    /\ srvResponses[1].status = 200
    /\ srvResponses[1].success

\* C18: an invocation has no response while it awaits a fetch and exactly
\* one, of status 200, 400 or 500, when it is over; it awaits at most three
\* fetches, each reply taking it to the next fetch or to its response; an
\* upstream reply with a non-success status, a rejected fetch and, for the
\* template endpoint, a reply without candidates end it with 500 and the
\* fixed message of the endpoint, never with a success body.
C18_OneResponsePerInvocation ==
    /\ srvPc \in Callees
         => /\ srvResponses = <<>>
            /\ Len(srvOutbound) = Len(srvReplies) + 1
            /\ Len(srvOutbound) <= 3
    /\ srvPc = "done"
         => /\ Len(srvResponses) = 1
            /\ srvResponses[1].status \in {200, 400, 500}
            /\ Len(srvOutbound) = Len(srvReplies)
    /\ \A i \in 1..Len(srvReplies) :
          (\/ srvReplies[i].status # "ok"
           \/ srvReq.endpoint = "gemini-template" /\ srvReplies[i].cands = 0)
              => /\ i = Len(srvReplies)
                 /\ RespondedWith(500, FailureMessage(srvReq.endpoint))
                 /\ ~srvResponses[1].success
                 /\ srvResponses[1].text = ""

C18_Witness ==
    /\ srvReq.endpoint = "agenda-email"
    /\ Len(srvReplies) = 3
    /\ srvReplies[3].status = "notok"
    /\ srvOutbound[3].to = "mailgun"
    /\ RespondedWith(500, "Failed to send meeting agenda email")

\* C19: with a success reply of the provider, analyze and generate-summary
\* answer 200 with the text of the first candidate, or with their fixed
\* fallback when there is no candidate or it has no text; and a summary
\* request whose transcript is the empty array reaches the provider.
C19_FirstCandidateOrFallback ==
    /\ (/\ srvReq.endpoint \in GeminiEndpoints \ {"gemini-template"}
        /\ srvPc = "done"
        /\ Len(srvReplies) = 1
        /\ srvReplies[1].status = "ok")
          => /\ Len(srvResponses) = 1
             /\ srvResponses[1].status = 200
             /\ srvResponses[1].error = ""
             /\ srvResponses[1].text =
                  IF srvReplies[1].cands > 0 /\ srvReplies[1].text # ""
                  THEN srvReplies[1].text
                  ELSE IF srvReq.endpoint = "analyze"
                       THEN "No answer generated"
                       ELSE "No summary generated"
    /\ (/\ srvReq.endpoint \in {"generate-summary",
                                "generate-summary-sections"}
        /\ ~LacksEnv
        /\ srvReq.body.parses
        /\ srvReq.body.transcript.defined
        /\ srvReq.body.transcript.turns = <<>>)
          => /\ Len(srvOutbound) = 1
             /\ srvOutbound[1].to = "gemini"
             /\ srvOutbound[1].prompt.lines = <<>>

C19_Witness ==
    /\ srvReq.endpoint = "generate-summary"
    /\ srvReq.body.transcript.defined
    /\ srvReq.body.transcript.turns = <<>>
    /\ Len(srvReplies) = 1
    /\ srvReplies[1].status = "ok"
    /\ srvReplies[1].cands = 0
    /\ RespondedWith(200, "")
    /\ srvResponses[1].text = "No summary generated"

\* The mail an email endpoint has handed to the mail provider.
MailSent ==
    /\ srvReq.endpoint \in EmailEndpoints
    /\ srvOutbound # <<>>
    /\ srvOutbound[Len(srvOutbound)].to = "mailgun"

Mail == srvOutbound[Len(srvOutbound)]

Succeeded == Responded /\ srvResponses[1].status = 200

\* C20 as stated: an email endpoint sends to the recipient of the request
\* when one is given and to the configured default when none is, and the
\* recipient of its success response is the address the mail went to.
C20_SendsToRequestedRecipient ==
    MailSent
        => /\ Mail.recipient =
                IF truthyString(srvReq.body.recipient)
                THEN srvReq.body.recipient.s
                ELSE DefaultRecipient
           /\ Succeeded => srvResponses[1].recipient = Mail.recipient

\* C20, amended: the agenda endpoint sends to the recipient of the request
\* when one is given and to the configured default when none is; the space
\* fact endpoint reads no recipient and always sends to the configured
\* default; the recipient of either success response is the address the
\* mail went to.
C20_AgendaGoesToRequestedRecipient ==
    MailSent
        => /\ Mail.recipient =
                IF srvReq.endpoint = "agenda-email"
                   /\ truthyString(srvReq.body.recipient)
                THEN srvReq.body.recipient.s
                ELSE DefaultRecipient
           /\ Succeeded => srvResponses[1].recipient = Mail.recipient

C20_Witness ==
    /\ srvReq.endpoint = "agenda-email"
    /\ srvReq.body.recipient.defined
    /\ srvReq.body.recipient.s = "bob@example.com"
    /\ MailSent
    /\ Mail.recipient = "bob@example.com"
    /\ Succeeded
    /\ srvResponses[1].recipient = "bob@example.com"

\* ------------------------------------------------ properties, third part
\* C21 as stated: toggling the Q&A panel of one conversation never changes
\* whether the panel of another conversation is expanded.
C21_ToggleLeavesOtherPanels ==
    [][\A a \in Ids, b \in Ids :
          (a # b /\ toggleQA(a))
              => ((expandedQA' = b) <=> (expandedQA = b))]_vars

\* C21, amended: one identifier records the expanded panel, so at most one
\* panel is expanded; toggling the panel of a conversation expands it when
\* it was collapsed and collapses it when it was expanded, leaves every
\* other panel collapsed (collapsing the one that was expanded), and
\* changes no question, answer or loading flag.
C21_TogglePutsOnePanelOnShow ==
    [][\A a \in Ids :
          toggleQA(a)
              => /\ (expandedQA' = a) <=> (expandedQA # a)
                 /\ \A b \in Ids \ {a} : expandedQA' # b
                 /\ UNCHANGED <<questions, answers, loadingAnalysis>>]_vars

C21_Witness ==
    \E a \in Ids, b \in Ids :
        /\ a # b
        /\ Displayed(a) /\ Displayed(b)
        /\ answers[b] # ""
        /\ expandedQA = a

\* The step handles a response on conversation x that comes after the state
\* that triggered its request has gone: an answer for a collapsed panel, a
\* preview for a modal that was closed since.
LateOn(x) ==
    \/ /\ Len(qaReqs'[x]) < Len(qaReqs[x])
       /\ expandedQA # x
    \/ \E k \in 1..Len(previewReqs) :
          /\ previewReqs' = RemoveAt(previewReqs, k)
          /\ previewReqs[k].id = x
          /\ previewReqs[k].closed

\* C22: a response that resolves after its triggering state has changed is
\* written only to the entries of its own conversation: it changes no
\* keyed entry of another conversation, neither list, and nothing of what
\* the email modal shows now or at a later opening.
C22_LateResponseStaysOnItsEntry ==
    [][\A x \in Ids :
         LateOn(x)
         => /\ \A other \in Ids \ {x} : RowEntries(other)' = RowEntries(other)
            /\ UNCHANGED <<conversations, filteredConversations>>
            /\ UNCHANGED <<emailModal, emailRecipient, emailPreview,
                           loadingEmailPreview>>]_vars

\* The modal is open for one conversation and shows the agenda that a
\* preview call of an earlier opening produced for another one.
C22_Witness ==
    \E x \in Ids, other \in Ids :
        /\ x # other
        /\ emailModal = other
        /\ geminiSummaries[other] = ""
        /\ geminiSummaries[x] # ""
        /\ emailPreview # NoPreview
        /\ emailPreview.kind = "agenda"
        /\ previewFrom = "earlier opening"
        /\ lastResponse.op = "preview"

\* C23 (as stated): whatever other delete requests are in flight and in
\* whatever order the responses arrive, the step that handles a successful
\* delete of an id takes that id out of the conversation list and out of
\* the displayed list, puts back no id that an earlier response removed and
\* loses no request that is still in flight; once the list is loaded no
\* step adds an id to it, and the displayed list shows no id that is not
\* in it.
C23_NoRemovalIsLost ==
    [][/\ \A id \in Ids :
            ( /\ lastResponse'.op = "delete"
              /\ lastResponse'.outcome = "ok"
              /\ HandlesDeleteOf(id) )
                => /\ id \notin IdsOf(conversations')
                   /\ id \notin IdsOf(filteredConversations')
                   /\ IdsOf(conversations') = IdsOf(conversations) \ {id}
                   /\ \A other \in Ids \ {id} :
                         deleteReqs'[other] = deleteReqs[other]
       /\ ~loading => IdsOf(conversations') \subseteq IdsOf(conversations)
       /\ ~loading' =>
             IdsOf(filteredConversations') \subseteq IdsOf(conversations')]_vars

\* Two deletes of a full list have both been answered with success, the
\* second before the effect of the first had run: no request is left in
\* flight, and the displayed list is the list as it was before the second
\* removal, with the row of a deleted conversation.
C23_Witness ==
    /\ lastResponse.op = "delete"
    /\ lastResponse.outcome = "ok"
    /\ \A id \in Ids : deleteReqs[id] = 0
    /\ viewMode = "all"
    /\ Len(conversations) = MaxConvs - 2
    /\ Len(filteredConversations) = MaxConvs - 1
    /\ \E id \in IdsOf(filteredConversations) : id \notin IdsOf(conversations)

\* The step handles the failure of the row's summary generation for id,
\* at the transcript fetch or at the summary request.
SummaryFailsFor(id) ==
    /\ lastResponse'.op = "summary"
    /\ lastResponse'.outcome # "ok"
    /\ Len(summaryReqs'[id]) < Len(summaryReqs[id])

\* C24 (as stated): after a summary generation for a conversation has
\* failed, at the transcript fetch or at the summary request, the
\* conversation has no summary cached and its loading flag is false, so
\* that a new invocation issues a new request.
C24_FailureLeavesNothingCached ==
    [][\A id \in Ids :
         SummaryFailsFor(id)
             => /\ geminiSummaries'[id] = ""
                /\ ~loadingSummary'[id]
                /\ ~AlreadySummarised(id)']_vars

\* The generation of the one listed conversation has just failed, and a
\* summary is cached for it: a new invocation issues no request.
C24_Witness ==
    \E id \in Ids :
        /\ IdsOf(conversations) = {id}
        /\ Displayed(id)
        /\ lastResponse.op = "summary"
        /\ lastResponse.outcome # "ok"
        /\ ~loadingSummary[id]
        /\ summaryReqs[id] = <<>>
        /\ geminiSummaries[id] # ""
        /\ AlreadySummarised(id)

\* a is b with some elements left out, the others in the order of b.
RECURSIVE IsSubsequence(_, _)
IsSubsequence(a, b) ==
    IF a = <<>> THEN TRUE
    ELSE IF b = <<>> THEN FALSE
    ELSE IF Head(a) = Head(b) THEN IsSubsequence(Tail(a), Tail(b))
    ELSE IsSubsequence(a, Tail(b))

\* C25 (as stated): in every reachable state the displayed list is an
\* order-preserving subsequence of the conversation list: it shows no
\* conversation that was deleted or never fetched, and none twice.
C25_DisplayedIsSubsequence ==
    /\ IsSubsequence(filteredConversations, conversations)
    /\ IdsOf(filteredConversations) \subseteq IdsOf(conversations)
    /\ Cardinality(IdsOf(filteredConversations)) = Len(filteredConversations)

\* A second delete was answered before the effect of the first had run: the
\* row of the conversation it deleted is on display and no longer in the
\* conversation list.
C25_Witness ==
    /\ lastResponse.op = "delete"
    /\ lastResponse.outcome = "ok"
    /\ effectPending
    /\ Len(conversations) = MaxConvs - 2
    /\ \E id \in IdsOf(filteredConversations) : id \notin IdsOf(conversations)

\* The POST /api/generate-summary requests in flight for a conversation:
\* those of the row's generate action and those of the email preview.
SummaryRequestsFor(id) ==
    Cardinality({k \in 1..Len(summaryReqs[id]) :
                    summaryReqs[id][k].stage = "generate"})
    + Cardinality({k \in 1..Len(previewReqs) :
                    /\ previewReqs[k].id = id
                    /\ previewReqs[k].stage = "generate"})

\* C26: for every conversation at most one summary-generation request is
\* in flight at any time, the row's and the email preview's counted alike.
C26_OneSummaryRequestPerConversation ==
    \A id \in Ids : SummaryRequestsFor(id) <= 1

\* The row's request and the preview's request for one conversation are
\* both with the summary endpoint.
C26_Witness ==
    \E id \in Ids :
        /\ loadingSummary[id]
        /\ Len(summaryReqs[id]) = 1
        /\ summaryReqs[id][1].stage = "generate"
        /\ emailModal = id
        /\ loadingEmailPreview
        /\ Len(previewReqs) = 1
        /\ previewReqs[1].id = id
        /\ previewReqs[1].stage = "generate"
        /\ ~previewReqs[1].closed

\* C27: a send request is issued only while no send request of the same
\* opening of the modal is in flight, so that one opening has at most one
\* send request in flight.
C27_OneSendInFlightPerOpening ==
    [][Len(sendReqs') > Len(sendReqs)
          => \A k \in 1..Len(sendReqs) : sendReqs[k].closed]_vars

\* Two send requests of one opening of the modal, for the same conversation
\* and recipient, are in flight.
C27_Witness ==
    /\ ModalOpen
    /\ Len(sendReqs) = 2
    /\ \A k \in 1..2 :
          /\ sendReqs[k].id = emailModal
          /\ sendReqs[k].recipient = emailRecipient
          /\ ~sendReqs[k].closed

\* C28: when the email endpoint has sent the mail of a send request, the
\* summary in the mail is the summary the preview showed when the user
\* confirmed.
C28_MailCarriesPreviewedSummary ==
    [][\A k \in 1..Len(sendReqs) :
          ( /\ lastResponse'.op = "send"
            /\ lastResponse'.outcome = "ok"
            /\ sendReqs' = Outlived(RemoveAt(sendReqs, k)) )
              => lastResponse'.mailed = sendReqs[k].shown]_vars

\* The mail went out with a summary other than the one of the agenda the
\* user had previewed and confirmed.
C28_Witness ==
    \E id \in Ids :
        /\ lastResponse.op = "send"
        /\ lastResponse.outcome = "ok"
        /\ geminiSummaries[id] = "1. Ship"
        /\ lastResponse.mailed = "No summary generated"
        /\ \A other \in Ids \ {id} : geminiSummaries[other] = ""
        /\ emailModal = NULL
        /\ sendReqs = <<>>
        /\ previewReqs = <<>>

\* C29: a conversation leaves the list only in a step that receives the
\* route's response to a delete of that id whose fetch still waits for it,
\* and in the invocation that produced it the route asked the provider to
\* delete that id and the provider answered with a success status.
C29_RemovedOnlyAfterProviderDeleted ==
    [][\A id \in Ids :
          (id \in IdsOf(conversations) /\ id \notin IdsOf(conversations'))
             => /\ AtRoute(id)
                /\ ~srvCallerGone
                /\ Len(srvOutbound) = 1
                /\ srvOutbound[1].to = "elevenlabs"
                /\ srvOutbound[1].method = "DELETE"
                /\ srvOutbound[1].id = id
                /\ Len(srvReplies) = 1
                /\ srvReplies[1].status = "ok"
                /\ srvResponses[1].success]_vars

\* A delete was answered with success and its conversation left both lists,
\* while another conversation is still listed.
C29_Witness ==
    /\ lastResponse.op = "delete"
    /\ lastResponse.outcome = "ok"
    /\ srvPc = "idle"
    /\ srvReq.endpoint = "conversations DELETE"
    /\ srvReq.body.conversationId.s \notin IdsOf(conversations)
    /\ srvReq.body.conversationId.s \notin IdsOf(filteredConversations)
    /\ Len(conversations) > 0
\* C30: every loading flag that is set is reset later, given that every
\* fetch settles: the dashboard's initial loading, loadingAnalysis[id],
\* loadingSummary[id], loadingEmailPreview and the discussion page's loading.
C30_LoadingFlagsAreReset ==
    /\ loading ~> ~loading
    /\ \A id \in Ids :
          /\ loadingAnalysis[id] ~> ~loadingAnalysis[id]
          /\ loadingSummary[id] ~> ~loadingSummary[id]
    /\ loadingEmailPreview ~> ~loadingEmailPreview
    /\ discussionLoading ~> ~discussionLoading

\* A question and a preview have failed, the failure of a template is the
\* latest response, and no flag is set.
C30_Witness ==
    /\ ~loading
    /\ answers["c1"] = ErrorAnswer
    /\ emailPreview # NoPreview
    /\ emailPreview.kind = "fallback"
    /\ analysis = TemplateError
    /\ lastResponse.op = "template"
    /\ \A id \in PanelIds : ~loadingAnalysis[id] /\ ~loadingSummary[id]
    /\ ~loadingEmailPreview
    /\ ~discussionLoading
====
